---- MODULE Spec2Model ----
(***************************************************************************)
(* BSONColumnBuilder (src/mongo/bson/util/bsoncolumnbuilder.cpp): the      *)
(* streaming column compressor, its per-field EncodingState, the lock-step *)
(* traversal and merge of sub-objects, and the interleaved flush.          *)
(*                                                                         *)
(* Values.  A BSONElement is a record [name, t, n, o]: field name, type    *)
(* (the BSONType enumerator's name), scalar payload n, and for t="Object"  *)
(* the fields o (a sequence of elements).  BSONObj() is <<>>.              *)
(*                                                                         *)
(* Buffers.  A BufBuilder is a sequence of cells.  A cell is one byte      *)
(* (count header, control byte, type byte, field-name terminator, EOO,     *)
(* interleaved start), the value bytes of one element, or one 8-byte       *)
(* Simple-8b block.  Offsets and sizes are counted in cells.               *)
(***************************************************************************)
EXTENDS Integers, Sequences, FiniteSets, TLC

-----------------------------------------------------------------------------
(* Program constants *)

kMaxCount == 16
kCountMask == 15
kControlMask == 240
kNoSimple8bControl == -1
kMemoryAsInteger == 5
kElementCountBytes == 4
kInterleavedStartControlByte == 240
EOO == 0

\* kControlByteForScaleIndex, indexed by scale index 0..5
kControlByteForScaleIndex(scaleIndex) ==
    CASE scaleIndex = 0 -> 144
      [] scaleIndex = 1 -> 160
      [] scaleIndex = 2 -> 176
      [] scaleIndex = 3 -> 192
      [] scaleIndex = 4 -> 208
      [] OTHER          -> 128

-----------------------------------------------------------------------------
(* BSON elements and objects *)

Elem(name, t, n, o) == [name |-> name, t |-> t, n |-> n, o |-> o]

\* BSONElement(): the EOO element with empty field name
EOOElem == Elem("", "EOO", 0, <<>>)

\* The type byte BSONElement::type() is stored as
TypeByte(t) ==
    CASE t = "EOO"           -> 0
      [] t = "NumberDouble"  -> 1
      [] t = "String"        -> 2
      [] t = "Object"        -> 3
      [] t = "Array"         -> 4
      [] t = "BinData"       -> 5
      [] t = "Undefined"     -> 6
      [] t = "jstOID"        -> 7
      [] t = "Bool"          -> 8
      [] t = "Date"          -> 9
      [] t = "jstNULL"       -> 10
      [] t = "RegEx"         -> 11
      [] t = "DBRef"         -> 12
      [] t = "Code"          -> 13
      [] t = "Symbol"        -> 14
      [] t = "CodeWScope"    -> 15
      [] t = "NumberInt"     -> 16
      [] t = "bsonTimestamp" -> 17
      [] t = "NumberLong"    -> 18
      [] t = "NumberDecimal" -> 19
      [] t = "MaxKey"        -> 127
      [] t = "MinKey"        -> 255

IsMinOrMaxKey(t) == t = "MinKey" \/ t = "MaxKey"

\* elem.type() == Object && !elem.Obj().isEmpty()
IsEmptyObj(o) == o = <<>>

\* BSONObjBuilder::hasField
HasField(builder, name) == \E i \in 1..Len(builder) : builder[i].name = name

-----------------------------------------------------------------------------
(* _traverse: every non-Object leaf of 'reference' in pre-order, each paired *)
(* with BSONElement().  'pairs' accumulates the elemFunc calls.              *)

RECURSIVE _traverseFrom(_, _, _)
_traverseFrom(reference, i, pairs) ==
    IF i > Len(reference) THEN pairs
    ELSE LET elem == reference[i] IN
         IF elem.t = "Object"
         THEN _traverseFrom(reference, i + 1, _traverseFrom(elem.o, 1, pairs))
         ELSE _traverseFrom(reference, i + 1, Append(pairs, <<elem, EOOElem>>))

_traverse(reference) == _traverseFrom(reference, 1, <<>>)

(* _traverseLockStep: the loop over 'reference' at index i with the iterator *)
(* 'it' into 'obj'.  Result: the elemFunc calls made (in order, up to the    *)
(* point where the traversal stopped), the iterator, and the bool.           *)

RECURSIVE _traverseLockStepFrom(_, _, _, _, _)
_traverseLockStepFrom(reference, obj, i, it, pairs) ==
    IF i > Len(reference)
    THEN [pairs |-> pairs, it |-> it, compatible |-> it > Len(obj)]
    ELSE
    LET elem == reference[i]
        hasIt == it <= Len(obj)
        fail == [pairs |-> pairs, it |-> it, compatible |-> FALSE]
    IN
    IF elem.t = "Object"
    THEN LET refObj == elem.o IN
         IF ~hasIt /\ IsEmptyObj(refObj) THEN fail
         ELSE IF hasIt /\ elem.name = obj[it].name
         THEN IF obj[it].t # "Object" THEN fail
              ELSE IF IsEmptyObj(refObj) # IsEmptyObj(obj[it].o) THEN fail
              ELSE LET sub == _traverseLockStepFrom(refObj, obj[it].o, 1, 1, pairs) IN
                   IF ~sub.compatible
                   THEN [pairs |-> sub.pairs, it |-> it + 1, compatible |-> FALSE]
                   ELSE _traverseLockStepFrom(reference, obj, i + 1, it + 1, sub.pairs)
         ELSE _traverseLockStepFrom(reference, obj, i + 1, it,
                                    _traverseFrom(refObj, 1, pairs))
    ELSE LET match == hasIt /\ elem.name = obj[it].name IN
         _traverseLockStepFrom(reference, obj, i + 1,
                               IF match THEN it + 1 ELSE it,
                               Append(pairs, <<elem, IF match THEN obj[it] ELSE EOOElem>>))

\* the loop started at the second field of 'reference'
_traverseLockStepFromSecond(reference, obj) ==
    _traverseLockStepFrom(reference, obj, 2, 1, <<>>)

_traverseLockStep(reference, obj) == _traverseLockStepFrom(reference, obj, 1, 1, <<>>)

\* traverseLockStep: [pairs, compatible]
traverseLockStep(reference, obj) ==
    LET r == _traverseLockStep(reference, obj) IN
    [pairs |-> r.pairs, compatible |-> r.compatible /\ r.it > Len(obj)]

-----------------------------------------------------------------------------
(* _mergeObj: 'builder' is the sequence of fields appended so far at this  *)
(* level.  Result [ok, builder].                                           *)

\* std::find_if(std::next(it), end, name): TRUE iff found
NameLater(obj, it, name) == \E k \in (it + 1)..Len(obj) : obj[k].name = name

RECURSIVE _mergeRestRef(_, _, _)
_mergeRestRef(reference, refIt, builder) ==
    IF refIt > Len(reference) THEN [ok |-> TRUE, builder |-> builder]
    ELSE IF reference[refIt].t = "Object" /\ IsEmptyObj(reference[refIt].o)
         THEN [ok |-> FALSE, builder |-> builder]
    ELSE IF HasField(builder, reference[refIt].name)
         THEN [ok |-> FALSE, builder |-> builder]
    ELSE _mergeRestRef(reference, refIt + 1, Append(builder, reference[refIt]))

RECURSIVE _mergeObjFrom(_, _, _, _, _)
_mergeObjFrom(reference, obj, refIt, it, builder) ==
    IF refIt <= Len(reference) /\ it <= Len(obj)
    THEN
      LET r == reference[refIt]
          e == obj[it]
          name == r.name
          fail == [ok |-> FALSE, builder |-> builder]
      IN
      IF name = e.name
      THEN LET refIsObj == r.t = "Object"
               itIsObj == e.t = "Object"
           IN
           IF refIsObj /\ itIsObj
           THEN IF IsEmptyObj(r.o) # IsEmptyObj(e.o) THEN fail
                ELSE LET sub == _mergeObjFrom(r.o, e.o, 1, 1, <<>>) IN
                     IF ~sub.ok THEN fail
                     ELSE _mergeObjFrom(reference, obj, refIt + 1, it + 1,
                              Append(builder, Elem(name, "Object", 0, sub.builder)))
           ELSE IF refIsObj \/ itIsObj THEN fail
           ELSE _mergeObjFrom(reference, obj, refIt + 1, it + 1, Append(builder, r))
      ELSE IF ~NameLater(obj, it, name)
           THEN _mergeObjFrom(reference, obj, refIt + 1, it, Append(builder, r))
           ELSE IF HasField(builder, e.name) THEN fail
                ELSE _mergeObjFrom(reference, obj, refIt, it + 1, Append(builder, e))
    ELSE
      \* remaining reference elements, then remaining 'obj' elements
      LET a == _mergeRestRef(reference, refIt, builder) IN
      IF ~a.ok THEN a ELSE _mergeRestRef(obj, it, a.builder)

\* mergeObj: [ok, obj]; ok = FALSE stands for the empty prototype BSONObj()
mergeObj(reference, obj) ==
    LET r == _mergeObjFrom(reference, obj, 1, 1, <<>>) IN
    [ok |-> r.ok, obj |-> IF r.ok THEN r.builder ELSE <<>>]

-----------------------------------------------------------------------------
(* Buffers *)

ByteCell(b) == [k |-> "byte", b |-> b, e |-> EOOElem, s |-> <<>>]
ValueCell(e) == [k |-> "value", b |-> 0, e |-> [e EXCEPT !.name = ""], s |-> <<>>]
BlockCell(s) == [k |-> "block", b |-> 0, e |-> EOOElem, s |-> s]

RECURSIVE BitAnd(_, _)
BitAnd(a, b) ==
    IF a = 0 \/ b = 0 THEN 0
    ELSE (a % 2) * (b % 2) + 2 * BitAnd(a \div 2, b \div 2)

\* bsoncolumn::isLiteralControlByte
isLiteralControlByte(b) == BitAnd(b, 224) = 0

\* bsoncolumn::numSimple8bBlocksForControlByte
numSimple8bBlocksForControlByte(b) == BitAnd(b, kCountMask) + 1

-----------------------------------------------------------------------------
(* Simple-8b builder (collaborator).  A pending slot is an unsigned value  *)
(* or kSkip.  A block packs n slots of (60 \div n) bits each.              *)

kSkip == -1
Simple8bDataBits == 60
Simple8bSlotCounts == {1, 2, 3, 4, 5, 6, 7, 8, 10, 12, 15, 20, 30, 60}

RECURSIVE Simple8bBits(_)
Simple8bBits(v) == IF v < 2 THEN 1 ELSE 1 + Simple8bBits(v \div 2)

SetMax(S) == CHOOSE x \in S : \A y \in S : y <= x

\* the value has a selector at all
Simple8bEncodable(v) == Simple8bBits(v) <= Simple8bDataBits

\* _doesIntegerFitInCurrentWord
Simple8bFits(pending, v) ==
    LET q == Append(pending, v)
        m == SetMax({Simple8bBits(q[i]) : i \in 1..Len(q)})
    IN Len(q) * m <= Simple8bDataBits

\* _encodeLargestPossibleWord: how many pending slots the next block takes
Simple8bLargestWord(pending) ==
    SetMax({n \in Simple8bSlotCounts :
               /\ n <= Len(pending)
               /\ \A i \in 1..n : Simple8bBits(pending[i]) <= Simple8bDataBits \div n})

\* Simple8b<T>::iterator::blockSize
blockSize(cell) == Len(cell.s)

-----------------------------------------------------------------------------
(* EncodingState.  An encoder is used through a context c = [es, buf, cbs]: *)
(* its fields, the BufBuilder it writes to, and the control-block records  *)
(* its _controlBlockWriter has captured (offset, size).                    *)

EncodingState(controlBlockWriter) ==
    [prev |-> EOOElem, prevDelta |-> 0, s64 |-> <<>>, s128 |-> <<>>,
     storeWith128 |-> FALSE, controlByteOffset |-> kNoSimple8bControl,
     prevEncoded64 |-> 0, prevEncoded128 |-> 0, lastValueInPrevBlock |-> 0,
     scaleIndex |-> kMemoryAsInteger, controlBlockWriter |-> controlBlockWriter]

Ctx(es, buf, cbs) == [es |-> es, buf |-> buf, cbs |-> cbs]

\* _controlBlockWriter(buf + offset, len - offset), when set
CallControlBlockWriter(c, offset) ==
    IF c.es.controlBlockWriter
    THEN [c EXCEPT !.cbs = Append(@, <<offset, Len(c.buf) - offset>>)]
    ELSE c

\* a run that is never found full
ReachedMaxCountNever(count) == FALSE

\* count + 1 == kMaxCount
ReachedMaxCount(count) == count + 1 = kMaxCount

\* the tail of _incrementSimple8bCount: write back the count, clear the offset
\* when the run is full.  Result [c, ret].
_writeSimple8bCount(c, count) ==
    LET control == kControlByteForScaleIndex(c.es.scaleIndex)
        off == c.es.controlByteOffset
        c1 == [c EXCEPT !.buf[off + 1] = ByteCell(control + BitAnd(count, kCountMask))]
    IN IF ReachedMaxCount(count)
       THEN [c |-> [c1 EXCEPT !.es.controlByteOffset = kNoSimple8bControl], ret |-> off]
       ELSE [c |-> c1, ret |-> kNoSimple8bControl]

\* the first branch: allocate a control byte and record its offset
_allocateControlByte(c) ==
    _writeSimple8bCount([c EXCEPT !.buf = Append(@, ByteCell(0)),
                                  !.es.controlByteOffset = Len(c.buf)], 0)

\* the count of the open run incremented whatever its upper nibble
_incrementAnyScale(c) ==
    IF c.es.controlByteOffset = kNoSimple8bControl
    THEN _allocateControlByte(c)
    ELSE _writeSimple8bCount(c, BitAnd(c.buf[c.es.controlByteOffset + 1].b, kCountMask) + 1)

_incrementSimple8bCount(c) ==
    IF c.es.controlByteOffset = kNoSimple8bControl
    THEN _allocateControlByte(c)
    ELSE IF BitAnd(c.buf[c.es.controlByteOffset + 1].b, kControlMask)
              # kControlByteForScaleIndex(c.es.scaleIndex)
    THEN [c |-> _allocateControlByte(
                    [CallControlBlockWriter(c, c.es.controlByteOffset)
                        EXCEPT !.es.controlByteOffset = kNoSimple8bControl]).c,
          ret |-> kNoSimple8bControl]
    ELSE _writeSimple8bCount(c, BitAnd(c.buf[c.es.controlByteOffset + 1].b, kCountMask) + 1)

\* the writer's body after the count: append the block; a full run is handed
\* to the control-block writer.  r is _incrementSimple8bCount's [c, ret].
_appendBlock(r, block) ==
    IF r.ret # kNoSimple8bControl
    THEN CallControlBlockWriter([r.c EXCEPT !.buf = Append(@, BlockCell(block))], r.ret)
    ELSE [r.c EXCEPT !.buf = Append(@, BlockCell(block))]

\* the writer's last statement: _lastValueInPrevBlock for doubles
_setLastValueInPrevBlock(c) ==
    IF c.es.prev.t = "NumberDouble"
    THEN [c EXCEPT !.es.lastValueInPrevBlock = c.es.prev.n]
    ELSE c

\* the Simple8bWriteFn made by _createBufferWriter
_createBufferWriter(c, block) ==
    _setLastValueInPrevBlock(_appendBlock(_incrementSimple8bCount(c), block))

\* Simple8bBuilder: write the largest possible word of builder 'which'
Simple8bEmit(c, which) ==
    LET p == c.es[which]
        n == Simple8bLargestWord(p)
    IN _createBufferWriter([c EXCEPT !.es[which] = SubSeq(p, n + 1, Len(p))],
                           SubSeq(p, 1, n))

RECURSIVE Simple8bFlush(_, _)
Simple8bFlush(c, which) ==
    IF c.es[which] = <<>> THEN c ELSE Simple8bFlush(Simple8bEmit(c, which), which)

RECURSIVE Simple8bMakeRoom(_, _, _)
Simple8bMakeRoom(c, which, v) ==
    IF Simple8bFits(c.es[which], v) THEN c
    ELSE Simple8bMakeRoom(Simple8bEmit(c, which), which, v)

\* a pending slot more
Simple8bPush(c, which, v) == [c EXCEPT !.es[which] = Append(@, v)]

\* Simple8bBuilder::append: [c, ok]
Simple8bAppend(c, which, v) ==
    IF ~Simple8bEncodable(v) THEN [c |-> c, ok |-> FALSE]
    ELSE [c |-> Simple8bPush(Simple8bMakeRoom(c, which, v), which, v), ok |-> TRUE]

\* Simple8bBuilder::skip
Simple8bSkip(c, which) == Simple8bPush(Simple8bMakeRoom(c, which, kSkip), which, kSkip)

-----------------------------------------------------------------------------
(* EncodingState operations *)

\* no type uses delta-of-delta
usesDeltaOfDeltaNever(t) == FALSE

\* bsoncolumn::usesDeltaOfDelta
usesDeltaOfDelta(t) == t = "bsonTimestamp"

\* bsoncolumn::uses128bit
uses128bit(t) == t \in {"String", "BinData", "NumberDecimal"}

\* bsoncolumn::calcDelta
calcDelta(val, prev) == val - prev

\* Simple8bTypeUtil::encodeInt64 (zig-zag)
encodeInt64(v) == IF v >= 0 THEN 2 * v ELSE -2 * v - 1

\* Simple8bTypeUtil::decodeInt64
decodeInt64(u) == IF u % 2 = 0 THEN u \div 2 ELSE -((u + 1) \div 2)

\* encodeString with no limit of 16 bytes
encodeStringAny(e) == [ok |-> TRUE, v |-> e.n]

\* Simple8bTypeUtil::encodeString: a String payload n >= 0 is a string of at
\* most 16 bytes with encoding n; n < 0 is a longer string (no encoding)
encodeString(e) == [ok |-> e.n >= 0, v |-> e.n]

\* A BinData value n >= 0 stands for a binary of subtype n \div 100, of
\* (n % 100) \div 10 bytes, with the bytes n % 10; n < 0 stands for a binary
\* of subtype 0 and more than 16 bytes.
BinSubtype(n) == IF n < 0 THEN 0 ELSE n \div 100
BinSize(n) == IF n < 0 THEN 17 ELSE (n % 100) \div 10
BinContent(n) == n % 10

\* Simple8bTypeUtil::encodeBinary: the bytes as an integer; a binary of more
\* than 16 bytes has no encoding
encodeBinary(e) == [ok |-> e.n >= 0, v |-> BinContent(e.n)]

\* BSONElement::binaryEqualValues: type and value bytes, not the field name
binaryEqualValues(elem, previous) ==
    elem.t = previous.t /\ elem.n = previous.n /\ elem.o = previous.o

\* A NumberDouble payload n in 0 .. 2^10 - 1 is the double n / 100, which the
\* decimal scales 100 and up turn into an integer; any other payload is a
\* double that no decimal scale encodes.
IsDecimalDouble(n) == n >= 0 /\ n < 2^10

\* the IEEE-754 bits of the double as an integer
DoubleBits(n) == IF IsDecimalDouble(n) THEN n * 2^20 ELSE n

\* Simple8bTypeUtil::encodeDouble: [ok, v]; scale indices 0..4 are the
\* decimal scales 1, 10, 100, 1e4, 1e8
encodeDouble(n, scaleIndex) ==
    CASE scaleIndex = kMemoryAsInteger -> [ok |-> TRUE, v |-> DoubleBits(n)]
      [] ~IsDecimalDouble(n) -> [ok |-> FALSE, v |-> 0]
      [] scaleIndex = 0 -> [ok |-> n % 100 = 0, v |-> n \div 100]
      [] scaleIndex = 1 -> [ok |-> n % 10 = 0, v |-> n \div 10]
      [] scaleIndex = 2 -> [ok |-> TRUE, v |-> n]
      [] scaleIndex = 3 -> [ok |-> TRUE, v |-> n * 100]
      [] OTHER -> [ok |-> TRUE, v |-> n * 1000000]

\* a double that is no n / 100 with 0 <= n < 2^10, one for each integer
NoDecimalDouble(v) == IF v >= 0 THEN 2^10 + v ELSE v

\* Simple8bTypeUtil::decodeDouble; an integer that is the encoding of no
\* double n / 100 decodes to a double outside of them
decodeDouble(v, scaleIndex) ==
    CASE scaleIndex = kMemoryAsInteger ->
             IF v >= 0 /\ v < 2^30 /\ v % 2^20 = 0 THEN v \div 2^20 ELSE v
      [] scaleIndex = 0 -> IF v >= 0 /\ v <= 10 THEN v * 100 ELSE NoDecimalDouble(v)
      [] scaleIndex = 1 -> IF v >= 0 /\ v <= 102 THEN v * 10 ELSE NoDecimalDouble(v)
      [] scaleIndex = 2 -> IF v >= 0 /\ v < 2^10 THEN v ELSE NoDecimalDouble(v)
      [] scaleIndex = 3 -> IF v >= 0 /\ v < 102400 /\ v % 100 = 0
                           THEN v \div 100 ELSE NoDecimalDouble(v)
      [] OTHER -> IF v >= 0 /\ v < 1024000000 /\ v % 1000000 = 0
                  THEN v \div 1000000 ELSE NoDecimalDouble(v)

\* scaleAndEncodeDouble: the lowest scale index from minScaleIndex that
\* encodes the value: [encoded, scaleIndex]
RECURSIVE scaleAndEncodeDouble(_, _)
scaleAndEncodeDouble(value, minScaleIndex) ==
    IF encodeDouble(value, minScaleIndex).ok
    THEN [encoded |-> encodeDouble(value, minScaleIndex).v, scaleIndex |-> minScaleIndex]
    ELSE scaleAndEncodeDouble(value, minScaleIndex + 1)

\* bsoncolumn::expandDelta
expandDelta(prev, delta) == prev + delta

\* _storePrevious: the element without its field name
_storePrevious(c, elem) == [c EXCEPT !.es.prev = [elem EXCEPT !.name = ""]]

_initializeFromPrevious(c) ==
    LET prevElem == c.es.prev
        type == prevElem.t
        c1 == [c EXCEPT !.es.storeWith128 = uses128bit(type)]
    IN CASE type = "String" ->
              [c1 EXCEPT !.es.prevEncoded128 =
                  IF encodeString(prevElem).ok THEN encodeString(prevElem).v ELSE 0]
         [] type = "BinData" ->
              [c1 EXCEPT !.es.prevEncoded128 =
                  IF encodeBinary(prevElem).ok THEN encodeBinary(prevElem).v ELSE 0]
         [] type = "NumberDecimal" ->
              [c1 EXCEPT !.es.prevEncoded128 = prevElem.n]
         [] type = "jstOID" ->
              [c1 EXCEPT !.es.prevEncoded64 = prevElem.n]
         [] type = "NumberDouble" ->
              [c1 EXCEPT !.es.lastValueInPrevBlock = prevElem.n,
                         !.es.prevEncoded64 = scaleAndEncodeDouble(prevElem.n, 0).encoded,
                         !.es.scaleIndex = scaleAndEncodeDouble(prevElem.n, 0).scaleIndex]
         [] OTHER -> c1

\* the bytes of _prev: type byte, field-name terminator, value
PrevBytes(prev) == <<ByteCell(TypeByte(prev.t)), ByteCell(0), ValueCell(prev)>>

\* an open Simple-8b run is handed to the control-block writer
_notifyOpenRun(c) ==
    IF c.es.controlByteOffset # kNoSimple8bControl
    THEN CallControlBlockWriter(c, c.es.controlByteOffset)
    ELSE c

\* the literal's bytes, handed to the control-block writer
_writeLiteralBytes(c) ==
    CallControlBlockWriter([c EXCEPT !.buf = @ \o PrevBytes(c.es.prev)], Len(c.buf))

\* reset state, but for _prevDelta
_resetKeepPrevDelta(c) ==
    [c EXCEPT !.es.controlByteOffset = kNoSimple8bControl,
              !.es.scaleIndex = kMemoryAsInteger]

\* reset state, but for the control byte offset
_resetKeepControlByte(c) ==
    [c EXCEPT !.es.scaleIndex = kMemoryAsInteger, !.es.prevDelta = 0]

\* reset state
_resetAfterLiteral(c) ==
    [c EXCEPT !.es.controlByteOffset = kNoSimple8bControl,
              !.es.scaleIndex = kMemoryAsInteger,
              !.es.prevDelta = 0]

_writeLiteralFromPrevious(c) ==
    _initializeFromPrevious(_resetAfterLiteral(_writeLiteralBytes(_notifyOpenRun(c))))

\* the 128-bit encoding of the element, when it has one
_encoded128(elem) ==
    IF elem.t = "String" THEN encodeString(elem)
    ELSE IF elem.t = "BinData" THEN encodeBinary(elem)
    ELSE [ok |-> TRUE, v |-> elem.n]

\* appendEncoded's last statement: _prevEncoded128 = encoded
_setPrevEncoded128(r, encoded) ==
    [c |-> [r.c EXCEPT !.es.prevEncoded128 = encoded], ok |-> r.ok]

\* the 128-bit branch of append: [c, ok], ok as 'compressed'
_append128(c, elem) ==
    IF elem.t = "BinData" /\ BinSize(elem.n) # BinSize(c.es.prev.n)
    THEN [c |-> c, ok |-> FALSE]
    ELSE IF _encoded128(elem).ok
    THEN _setPrevEncoded128(
             Simple8bAppend(c, "s128",
                 encodeInt64(calcDelta(_encoded128(elem).v, c.es.prevEncoded128))),
             _encoded128(elem).v)
    ELSE [c |-> c, ok |-> FALSE]

\* encodingPossible of the 64-bit branch (not NumberDouble)
_encodingPossible(type) ==
    type \in {"NumberInt", "NumberLong", "jstOID", "bsonTimestamp", "Date", "Bool",
              "Undefined", "jstNULL"}

\* value of the 64-bit branch
_value64(c, elem, previous) ==
    CASE elem.t = "jstOID" -> calcDelta(elem.n, c.es.prevEncoded64)
      [] elem.t = "bsonTimestamp" -> calcDelta(calcDelta(elem.n, previous.n), c.es.prevDelta)
      [] elem.t \in {"Undefined", "jstNULL"} -> 0
      [] OTHER -> calcDelta(elem.n, previous.n)

\* what the switch of the 64-bit branch stores: _prevEncoded64, _prevDelta
_track64(c, elem, previous) ==
    CASE elem.t = "jstOID" -> [c EXCEPT !.es.prevEncoded64 = elem.n]
      [] elem.t = "bsonTimestamp" -> [c EXCEPT !.es.prevDelta = calcDelta(elem.n, previous.n)]
      [] OTHER -> c

\* the 64-bit branch of append: [c, ok]
_append64(c, elem, previous) ==
    IF _encodingPossible(elem.t)
    THEN Simple8bAppend(_track64(c, elem, previous), "s64",
                        encodeInt64(_value64(c, elem, previous)))
    ELSE [c |-> c, ok |-> FALSE]

\* the loop of _tryRescalePending over the pending values: [ok, builder,
\* prevRescaled].  A value that does not fit the word of the new builder
\* would make it write a block, so rescaling fails.
RECURSIVE _rescalePending(_, _, _, _, _, _)
_rescalePending(pending, prev, prevRescaled, scaleIndex, newScaleIndex, builder) ==
    IF pending = <<>>
    THEN [ok |-> TRUE, builder |-> builder, prevRescaled |-> prevRescaled]
    ELSE IF Head(pending) = kSkip
    THEN IF Simple8bFits(builder, kSkip)
         THEN _rescalePending(Tail(pending), prev, prevRescaled, scaleIndex,
                              newScaleIndex, Append(builder, kSkip))
         ELSE [ok |-> FALSE, builder |-> builder, prevRescaled |-> prevRescaled]
    ELSE LET p == expandDelta(prev, decodeInt64(Head(pending)))
             rescaled == encodeDouble(decodeDouble(p, scaleIndex), newScaleIndex)
             d == encodeInt64(calcDelta(rescaled.v, prevRescaled))
         IN IF ~rescaled.ok \/ ~Simple8bEncodable(d) \/ ~Simple8bFits(builder, d)
            THEN [ok |-> FALSE, builder |-> builder, prevRescaled |-> prevRescaled]
            ELSE _rescalePending(Tail(pending), p, rescaled.v, scaleIndex,
                                 newScaleIndex, Append(builder, d))

\* lines 613-622: last add the new value
_rescaleNewValue(r, encoded) ==
    IF /\ r.ok
       /\ Simple8bEncodable(encodeInt64(calcDelta(encoded, r.prevRescaled)))
       /\ Simple8bFits(r.builder, encodeInt64(calcDelta(encoded, r.prevRescaled)))
    THEN [ok |-> TRUE,
          builder |-> Append(r.builder, encodeInt64(calcDelta(encoded, r.prevRescaled)))]
    ELSE [ok |-> FALSE, builder |-> <<>>]

\* _tryRescalePending: [ok, builder], ok = FALSE for boost::none
_tryRescalePending(c, encoded, newScaleIndex) ==
    IF ~encodeDouble(c.es.lastValueInPrevBlock, newScaleIndex).ok
    THEN [ok |-> FALSE, builder |-> <<>>]
    ELSE _rescaleNewValue(
             _rescalePending(c.es.s64,
                             encodeDouble(c.es.lastValueInPrevBlock, c.es.scaleIndex).v,
                             encodeDouble(c.es.lastValueInPrevBlock, newScaleIndex).v,
                             c.es.scaleIndex, newScaleIndex, <<>>),
             encoded)

\* lines 636-640: use the rescaled builder
_useRescaled(c, builder, encoded, scaleIndex) ==
    [c EXCEPT !.es.s64 = builder,
              !.es.prevEncoded64 = encoded,
              !.es.scaleIndex = scaleIndex]

\* lines 648-653: the scale index that encodes both value and previous
_commonScaleIndex(value, previous, scaleIndex) ==
    IF scaleAndEncodeDouble(previous, scaleIndex).scaleIndex # scaleIndex
    THEN scaleAndEncodeDouble(
             value, scaleAndEncodeDouble(previous, scaleIndex).scaleIndex).scaleIndex
    ELSE scaleIndex

\* lines 644-656: flush, forget the control byte, record the new scale
_flushForScale(c, previous, scaleIndex) ==
    [Simple8bFlush(c, "s64") EXCEPT
        !.es.controlByteOffset = kNoSimple8bControl,
        !.es.prevEncoded64 = scaleAndEncodeDouble(previous, scaleIndex).encoded,
        !.es.scaleIndex = scaleIndex]

RECURSIVE _appendDouble(_, _, _)
RECURSIVE _appendScaled(_, _, _)
RECURSIVE _replayPending(_, _, _, _, _)

\* lines 666-690: a block was written; the scale goes back to that of
\* _lastValueInPrevBlock and the pending values are appended again
_rescaleDown(c) ==
    _replayPending(
        [c EXCEPT !.es.s64 = <<>>,
                  !.es.prevEncoded64 =
                      scaleAndEncodeDouble(c.es.lastValueInPrevBlock, 0).encoded,
                  !.es.scaleIndex =
                      scaleAndEncodeDouble(c.es.lastValueInPrevBlock, 0).scaleIndex],
        c.es.s64,
        c.es.lastValueInPrevBlock,
        encodeDouble(c.es.lastValueInPrevBlock, c.es.scaleIndex).v,
        c.es.scaleIndex)

_replayPending(c, pending, prev, prevEncoded, prevScale) ==
    IF pending = <<>> THEN c
    ELSE IF Head(pending) = kSkip
    THEN _replayPending(Simple8bSkip(c, "s64"), Tail(pending), prev, prevEncoded, prevScale)
    ELSE _replayPending(
             _appendDouble(
                 c,
                 decodeDouble(expandDelta(prevEncoded, decodeInt64(Head(pending))), prevScale),
                 prev).c,
             Tail(pending),
             decodeDouble(expandDelta(prevEncoded, decodeInt64(Head(pending))), prevScale),
             expandDelta(prevEncoded, decodeInt64(Head(pending))),
             prevScale)

\* lines 659-693 once r = the append of the delta is made: [c, ok]
_afterAppendScaled(c, r, encoded) ==
    IF ~r.ok THEN [c |-> r.c, ok |-> FALSE]
    ELSE IF Len(r.c.buf) # Len(c.buf)
    THEN [c |-> [_rescaleDown(r.c) EXCEPT !.es.prevEncoded64 = encoded], ok |-> TRUE]
    ELSE [c |-> [r.c EXCEPT !.es.prevEncoded64 = encoded], ok |-> TRUE]

_appendScaled(c, value, encoded) ==
    _afterAppendScaled(
        c,
        Simple8bAppend(c, "s64", encodeInt64(calcDelta(encoded, c.es.prevEncoded64))),
        encoded)

\* EncodingState::_appendDouble: [c, ok]
_appendDouble(c, value, previous) ==
    IF scaleAndEncodeDouble(value, c.es.scaleIndex).scaleIndex = c.es.scaleIndex
    THEN _appendScaled(c, value, scaleAndEncodeDouble(value, c.es.scaleIndex).encoded)
    ELSE IF _tryRescalePending(
                c,
                scaleAndEncodeDouble(value, c.es.scaleIndex).encoded,
                scaleAndEncodeDouble(value, c.es.scaleIndex).scaleIndex).ok
    THEN [c |-> _useRescaled(
                    c,
                    _tryRescalePending(
                        c,
                        scaleAndEncodeDouble(value, c.es.scaleIndex).encoded,
                        scaleAndEncodeDouble(value, c.es.scaleIndex).scaleIndex).builder,
                    scaleAndEncodeDouble(value, c.es.scaleIndex).encoded,
                    scaleAndEncodeDouble(value, c.es.scaleIndex).scaleIndex),
          ok |-> TRUE]
    ELSE _appendScaled(
             _flushForScale(
                 c, previous,
                 _commonScaleIndex(value, previous,
                                   scaleAndEncodeDouble(value, c.es.scaleIndex).scaleIndex)),
             value,
             encodeDouble(
                 value,
                 _commonScaleIndex(value, previous,
                                   scaleAndEncodeDouble(value, c.es.scaleIndex).scaleIndex)).v)

\* a value equal to the previous one treated as not compressed
_appendNothing(c) == [c |-> c, ok |-> FALSE]

\* a value equal to the previous one: append(0), compressed stays true
_appendZero(c) ==
    [c |-> Simple8bAppend(c, IF c.es.storeWith128 THEN "s128" ELSE "s64", 0).c,
     ok |-> TRUE]

\* store delta in Simple-8b if types match: [c, ok]
_appendDelta(c, elem, previous) ==
    IF ~usesDeltaOfDelta(elem.t) /\ binaryEqualValues(elem, previous)
    THEN _appendZero(c)
    ELSE IF c.es.storeWith128 THEN _append128(c, elem)
    ELSE IF elem.t = "NumberDouble" THEN _appendDouble(c, elem.n, previous.n)
    ELSE _append64(c, elem, previous)

\* the literal written over values still pending in the Simple-8b builders
_writeLiteralUnflushed(c) == _writeLiteralFromPrevious(c)

\* flush both builders and write the literal
_flushAndWriteLiteral(c) ==
    _writeLiteralFromPrevious(Simple8bFlush(Simple8bFlush(c, "s128"), "s64"))

\* _storePrevious(elem), then the literal if the value was not compressed
_storeAndWrite(r, elem) ==
    IF r.ok THEN _storePrevious(r.c, elem)
    ELSE _flushAndWriteLiteral(_storePrevious(r.c, elem))

\* EncodingState::append
ES_append(c, elem) ==
    IF c.es.prev.t # elem.t
    THEN _storeAndWrite([c |-> c, ok |-> FALSE], elem)
    ELSE _storeAndWrite(_appendDelta(c, elem, c.es.prev), elem)

\* lines 550-553: rescale the previous known value if the skip wrote blocks
_rescaleAfterSkip(c, before) ==
    IF before # Len(c.buf) /\ c.es.prev.t = "NumberDouble"
    THEN [c EXCEPT !.es.prevEncoded64 =
                       scaleAndEncodeDouble(c.es.lastValueInPrevBlock, 0).encoded,
                   !.es.scaleIndex =
                       scaleAndEncodeDouble(c.es.lastValueInPrevBlock, 0).scaleIndex]
    ELSE c

\* EncodingState::skip
ES_skip(c) ==
    _rescaleAfterSkip(Simple8bSkip(c, IF c.es.storeWith128 THEN "s128" ELSE "s64"),
                      Len(c.buf))

\* EncodingState::flush
\* flush that leaves the 64-bit builder as it is
ES_flush128(c) == _notifyOpenRun(Simple8bFlush(c, "s128"))

\* EncodingState::flush
ES_flush(c) == _notifyOpenRun(Simple8bFlush(Simple8bFlush(c, "s128"), "s64"))

-----------------------------------------------------------------------------
(* BSONColumnBuilder.  The operations work on a record b of the builder's  *)
(* fields plus: status ("ok", "uassert" once an exception is propagating,  *)
(* "abort" once an invariant() has failed or the process has crashed), ub  *)
(* (what a read through an invalidated iterator or of an empty container   *)
(* does in this call: "crash" or "stale", the old contents are read),      *)
(* staleFront (what slot 0 of _bufferedObjElements' storage last held) and *)
(* depth (nesting of _finishDetermineSubObjReference).                     *)

MaxNesting == 3

Throw(b) == [b EXCEPT !.status = "uassert"]
Abort(b) == [b EXCEPT !.status = "abort"]

SeqMin(S) == CHOOSE x \in S : \A y \in S : x <= y

\* the context of the Regular encoder _state, and of sub-encoder i
StateCtx(b) == Ctx(b._state, b._bufBuilder, <<>>)
SubCtx(b, i) == Ctx(b._subobjStates[i], b._subobjBuffers[i].first,
                    b._subobjBuffers[i].second)
PutStateCtx(b, c) == [b EXCEPT !._state = c.es, !._bufBuilder = c.buf]
PutSubCtx(b, i, c) ==
    [b EXCEPT !._subobjStates[i] = c.es,
              !._subobjBuffers[i] = [first |-> c.buf, second |-> c.cbs]]

\* the BSONObj as the bytes objdata()/objsize() name
ObjData(obj) == ValueCell(Elem("", "Object", 0, obj))

\* the encoder as it is, no new EncodingState assigned
_keepState(c) == c

\* _state = {&_bufBuilder, nullptr}: operator= leaves the Simple-8b builders
_resetState(c) ==
    [c EXCEPT !.es = [EncodingState(FALSE) EXCEPT !.s64 = c.es.s64, !.s128 = c.es.s128]]

\* _state.flush(); _state = {&_bufBuilder, nullptr};
_flushAndResetState(b) == PutStateCtx(b, _resetState(ES_flush(StateCtx(b))))

\* the uassert in the callback of _traverse(obj, ...)
HasMinOrMaxKeyLeaf(obj) ==
    \E i \in 1..Len(_traverse(obj)) : IsMinOrMaxKey(_traverse(obj)[i][1].t)

\* the traversal and the three assignments that end the function
_setReference(b, obj) ==
    IF HasMinOrMaxKeyLeaf(obj) THEN Throw(b)
    ELSE [b EXCEPT !._referenceSubObj = obj,
                   !._bufferedObjElements = Append(@, obj),
                   !._mode = "kSubObjDeterminingReference"]

_startDetermineSubObjReference(b, obj) ==
    IF b.status # "ok" THEN b ELSE _setReference(_flushAndResetState(b), obj)

\* if (!elem.eoo()) state.append(elem); else state.skip();
_appendOrSkip(c, elem) == IF elem.t # "EOO" THEN ES_append(c, elem) ELSE ES_skip(c)

\* lines 860-867: append or skip on every sub-encoder, from index i
RECURSIVE _appendToSubStates(_, _)
_appendToSubStates(b, i) ==
    IF i > Len(b._flattenedAppendedObj) THEN b
    ELSE _appendToSubStates(
             PutSubCtx(b, i, _appendOrSkip(SubCtx(b, i), b._flattenedAppendedObj[i])),
             i + 1)

\* a new encoder with its own buffer and no 'previous'
_unseededState(ref) == Ctx(EncodingState(TRUE), <<>>, <<>>)

\* a new encoder with its own buffer, 'previous' set to the reference leaf
_seededState(ref) ==
    _initializeFromPrevious(_storePrevious(Ctx(EncodingState(TRUE), <<>>, <<>>), ref))

\* _subobjBuffers.emplace_back(); _subobjStates.emplace_back(...)
_pushSubState(b, c) ==
    [b EXCEPT !._subobjStates = Append(@, c.es),
              !._subobjBuffers = Append(@, [first |-> c.buf, second |-> c.cbs])]

\* lines 898-922: one sub-encoder per elemFunc call
RECURSIVE _createSubStates(_, _, _)
_createSubStates(b, pairs, i) ==
    IF i > Len(pairs) THEN b
    ELSE _createSubStates(
             _pushSubState(b, _appendOrSkip(_seededState(pairs[i][1]), pairs[i][2])),
             pairs, i + 1)

\* lines 942-944
RECURSIVE _flushSubStates(_, _)
_flushSubStates(b, i) ==
    IF b.status # "ok" \/ i > Len(b._subobjStates) THEN b
    ELSE _flushSubStates(PutSubCtx(b, i, ES_flush(SubCtx(b, i))), i + 1)

\* num += it.blockSize() over the first k blocks after the control byte
RECURSIVE SumBlockSizes(_, _, _)
SumBlockSizes(buffer, offset, k) ==
    IF k = 0 THEN 0
    ELSE SumBlockSizes(buffer, offset, k - 1)
         + (IF offset + 1 + k <= Len(buffer) THEN blockSize(buffer[offset + 1 + k]) ELSE 0)

\* lines 978-995: the number of elements in the control block at 'offset'
ElemsInControlBlock(buffer, offset) ==
    IF isLiteralControlByte(buffer[offset + 1].b) THEN 1
    ELSE SumBlockSizes(buffer, offset, numSimple8bBlocksForControlByte(buffer[offset + 1].b))

\* the top of a max-heap: greatest (num elements written, encoder index)
HeapTopGreatest(heap) ==
    CHOOSE x \in heap : \A y \in heap :
        y[1] < x[1] \/ (y[1] = x[1] /\ y[2] <= x[2])

\* the top of the min-heap: smallest (num elements written, encoder index)
HeapTop(heap) ==
    CHOOSE x \in heap : \A y \in heap :
        x[1] < y[1] \/ (x[1] = y[1] /\ x[2] <= y[2])

\* slot.second.pop_front() without the appendBuf
_dropControlBlock(b, i, rec) ==
    [b EXCEPT !._subobjBuffers[i].second = Tail(@)]

\* appendBuf(controlBlock, size); slot.second.pop_front();
_moveControlBlock(b, i, rec) ==
    [b EXCEPT !._bufBuilder = @ \o SubSeq(b._subobjBuffers[i].first,
                                          rec[1] + 1, rec[1] + rec[2]),
              !._subobjBuffers[i].second = Tail(@)]

\* the heap after the top's control block is written: the encoder leaves the
\* heap with its last control block, else is pushed back with its new count
_heapAfter(heap, top, slot) ==
    IF Tail(slot.second) = <<>> THEN heap \ {top}
    ELSE (heap \ {top}) \cup
         {<<top[1] + ElemsInControlBlock(slot.first, Head(slot.second)[1]), top[2]>>}

\* lines 960-1000.  heap: set of <<num elements written, encoder index>>.
\* front() of an empty deque ends the process.
RECURSIVE _interleave(_, _)
RECURSIVE _interleaveTop(_, _, _)
_interleaveTop(b, heap, top) ==
    IF b._subobjBuffers[top[2]].second = <<>> THEN Abort(b)
    ELSE _interleave(_moveControlBlock(b, top[2], Head(b._subobjBuffers[top[2]].second)),
                     _heapAfter(heap, top, b._subobjBuffers[top[2]]))

_interleave(b, heap) ==
    IF heap = {} THEN b ELSE _interleaveTop(b, heap, HeapTop(heap))

\* the loop at lines 949-1000 from heap (0, i) for every sub-buffer
_interleaveAll(b) ==
    IF b.status # "ok" THEN b
    ELSE _interleave(b, {<<0, i>> : i \in 1..Len(b._subobjBuffers)})

\* the end of the section without the cleanup of lines 1003-1004
_endInterleavedKeepStates(b) ==
    IF b.status # "ok" THEN b
    ELSE [b EXCEPT !._bufBuilder = Append(@, ByteCell(EOO)), !._mode = "kRegular"]

\* lines 1002-1005
_endInterleaved(b) ==
    IF b.status # "ok" THEN b
    ELSE [b EXCEPT !._bufBuilder = Append(@, ByteCell(EOO)),
                   !._subobjStates = <<>>,
                   !._subobjBuffers = <<>>,
                   !._mode = "kRegular"]

\* index of the first elemFunc call whose uassert fails, 0 if none
FirstMinOrMaxKey(pairs) ==
    IF \E i \in 1..Len(pairs) : IsMinOrMaxKey(pairs[i][2].t)
    THEN SeqMin({i \in 1..Len(pairs) : IsMinOrMaxKey(pairs[i][2].t)})
    ELSE 0

\* _flattenedAppendedObj after the first n elemFunc calls
_flatten(b, pairs, n) == [b EXCEPT !._flattenedAppendedObj = [i \in 1..n |-> pairs[i][2]]]

RECURSIVE _appendSubElements(_, _)
RECURSIVE _replayBuffered(_, _, _)
RECURSIVE _finishDetermineSubObjReference(_)
RECURSIVE _flushSubObjMode(_)

\* a restart that leaves the open section as it is
_restartWithoutFlush(b, obj) == _startDetermineSubObjReference(b, obj)

\* lines 847-849
_restartSubObjMode(b, obj) == _startDetermineSubObjReference(_flushSubObjMode(b), obj)

\* lines 854-867
_appendFlattened(b) ==
    IF Len(b._flattenedAppendedObj) # Len(b._subobjStates) THEN Abort(b)
    ELSE _appendToSubStates(b, 1)

\* the body of _appendSubElements, tr the result of traverseLockStep
_appendTraversed(b, obj, tr) ==
    IF FirstMinOrMaxKey(tr.pairs) # 0
    THEN Throw(_flatten(b, tr.pairs, FirstMinOrMaxKey(tr.pairs) - 1))
    ELSE IF ~tr.compatible
    THEN _restartSubObjMode(_flatten(b, tr.pairs, Len(tr.pairs)), obj)
    ELSE _appendFlattened(_flatten(b, tr.pairs, Len(tr.pairs)))

_appendSubElements(b, obj) ==
    IF b.status # "ok" THEN b
    ELSE _appendTraversed(b, obj, traverseLockStep(b._referenceSubObj, obj))

\* _bufferedObjElements.clear(); staleFront is what slot 0 last held
_clearBuffered(b) ==
    [b EXCEPT !.staleFront = IF b._bufferedObjElements # <<>>
                             THEN b._bufferedObjElements[1] ELSE @,
              !._bufferedObjElements = <<>>]

\* ++it.  An _appendSubElements that restarted the sub-object mode has changed
\* the vector under the loop: the next read through 'it' is a read through an
\* invalidated iterator.
_nextBuffered(b, snap, i) ==
    IF b.status = "ok" /\ b._bufferedObjElements # snap /\ i < Len(snap) /\ b.ub = "crash"
    THEN Abort(b)
    ELSE b

\* lines 926-932: the loop over _bufferedObjElements as it was when the loop
\* began ('snap'), then clear()
_replayBuffered(b, snap, i) ==
    IF b.status # "ok" THEN b
    ELSE IF i > Len(snap) THEN _clearBuffered(b)
    ELSE _replayBuffered(_nextBuffered(_appendSubElements(b, snap[i]), snap, i),
                         snap, i + 1)

\* lines 889-890
_writeInterleavedStart(b) ==
    [b EXCEPT !._bufBuilder = @ \o <<ByteCell(kInterleavedStartControlByte),
                                     ObjData(b._referenceSubObj)>>,
              !.depth = @ + 1]

\* _bufferedObjElements.front()
_front(b) ==
    IF b._bufferedObjElements = <<>> THEN b.staleFront ELSE b._bufferedObjElements[1]

\* lines 895-924: the sub-encoders, invariant(res), _mode
_initSubStates(b, tr) ==
    IF ~tr.compatible THEN Abort(_createSubStates(b, tr.pairs, 1))
    ELSE [_createSubStates(b, tr.pairs, 1) EXCEPT !._mode = "kSubObjAppending"]

\* lines 927-932
_replayRemaining(b) == _replayBuffered(b, b._bufferedObjElements, 2)

_finishDetermineSubObjReference(b) ==
    IF b.status # "ok" THEN b
    ELSE IF b.depth >= MaxNesting \/ (b._bufferedObjElements = <<>> /\ b.ub = "crash")
    THEN Abort(_writeInterleavedStart(b))
    ELSE _replayRemaining(
             _initSubStates(_writeInterleavedStart(b),
                            traverseLockStep(b._referenceSubObj, _front(b))))

\* lines 936-938
_finishIfDetermining(b) ==
    IF b._mode = "kSubObjDeterminingReference"
    THEN _finishDetermineSubObjReference(b) ELSE b

_flushSubObjMode(b) ==
    IF b.status # "ok" THEN b
    ELSE _endInterleaved(_interleaveAll(_flushSubStates(_finishIfDetermining(b), 1)))

\* an append without the uassert
AnyTypeValid(type) == TRUE

\* type != MinKey && type != MaxKey   (lines 269-271)
ValidForStorage(type) == ~IsMinOrMaxKey(type)

\* the test without elem.Obj().isEmpty()
IsNotObject(elem) == elem.t # "Object"

\* element.type() != Object || elem.Obj().isEmpty()   (line 273)
IsScalarOrEmptyObj(elem) == elem.t # "Object" \/ IsEmptyObj(elem.o)

\* numElements * 2 >= _bufferedObjElements.size()   (line 321)
KeepBuffering(numElements, bufferedCount) == numElements * 2 >= bufferedCount

\* a builder whose count stands still
KeepElementCount(b) == b

\* ++_elementCount, reached when no exception is propagating
IncrementElementCount(b) ==
    IF b.status # "ok" THEN b ELSE [b EXCEPT !._elementCount = @ + 1]

\* lines 275-277
_flushIfSubObj(b) == IF b._mode # "kRegular" THEN _flushSubObjMode(b) ELSE b

\* _state.append(elem)
_appendValue(b, elem) ==
    IF b.status # "ok" THEN b ELSE PutStateCtx(b, ES_append(StateCtx(b), elem))

\* lines 310-312: the object becomes the reference, unchecked
_restartWith(b, obj) ==
    IF b.status # "ok" THEN b
    ELSE [b EXCEPT !._referenceSubObj = obj,
                   !._bufferedObjElements = Append(@, obj),
                   !._mode = "kSubObjDeterminingReference"]

\* line 316: _referenceSubObj = merged, when the traversal was not compatible
_withReference(b, tr, merged) ==
    IF tr.compatible THEN b ELSE [b EXCEPT !._referenceSubObj = merged.obj]

\* lines 321-333
_bufferOrFinish(b, obj, numElements) ==
    IF KeepBuffering(numElements, Len(b._bufferedObjElements))
    THEN [b EXCEPT !._bufferedObjElements = Append(@, obj)]
    ELSE _appendSubElements(_finishDetermineSubObjReference(b), obj)

\* lines 295-318, tr and merged the results of traverseLockStep and mergeObj
_appendDetermining(b, obj, tr, merged) ==
    IF FirstMinOrMaxKey(tr.pairs) # 0 THEN Throw(b)
    ELSE IF ~tr.compatible /\ ~merged.ok THEN _restartWith(_flushSubObjMode(b), obj)
    ELSE _bufferOrFinish(_withReference(b, tr, merged), obj, Len(tr.pairs))

\* BSONColumnBuilder::append, the kSubObjDeterminingReference branch
_appendDeterminingReference(b, obj) ==
    _appendDetermining(b, obj, traverseLockStep(b._referenceSubObj, obj),
                       mergeObj(b._referenceSubObj, obj))

\* lines 284-333: a non-empty object
_appendObject(b, obj) ==
    IF b._mode = "kRegular" THEN _startDetermineSubObjReference(b, obj)
    ELSE IF b._mode = "kSubObjDeterminingReference" THEN _appendDeterminingReference(b, obj)
    ELSE _appendSubElements(b, obj)

\* BSONColumnBuilder::append
BSONColumnBuilder_append(b, elem) ==
    IF ~ValidForStorage(elem.t) THEN Throw(b)
    ELSE IF IsScalarOrEmptyObj(elem)
    THEN IncrementElementCount(_appendValue(_flushIfSubObj(b), elem))
    ELSE IncrementElementCount(_appendObject(b, elem.o))

\* lines 344-346
RECURSIVE _skipSubStates(_, _)
_skipSubStates(b, i) ==
    IF i > Len(b._subobjStates) THEN b
    ELSE _skipSubStates(PutSubCtx(b, i, ES_skip(SubCtx(b, i))), i + 1)

\* lines 339-347
_skipInMode(b) ==
    IF b._mode = "kRegular" THEN PutStateCtx(b, ES_skip(StateCtx(b)))
    ELSE IF b._mode = "kSubObjDeterminingReference"
    THEN [b EXCEPT !._bufferedObjElements = Append(@, <<>>)]
    ELSE _skipSubStates(b, 1)

\* BSONColumnBuilder::skip
BSONColumnBuilder_skip(b) == _skipInMode(IncrementElementCount(b))

\* the count written most significant byte first
BigEndian32(count) ==
    [i \in 1..kElementCountBytes |->
        ByteCell((count \div (IF i = 4 THEN 1 ELSE IF i = 3 THEN 256
                              ELSE IF i = 2 THEN 65536 ELSE 16777216)) % 256)]

\* DataView(buf).write<LittleEndian<uint32_t>>(count): the four bytes at offset 0
LittleEndian32(count) ==
    [i \in 1..kElementCountBytes |->
        ByteCell((count \div (IF i = 1 THEN 1 ELSE IF i = 2 THEN 256
                              ELSE IF i = 3 THEN 65536 ELSE 16777216)) % 256)]

WriteElementCount(buf, count) ==
    [i \in 1..Len(buf) |-> IF i <= kElementCountBytes THEN LittleEndian32(count)[i]
                           ELSE buf[i]]

\* lines 353-357
_flushForFinalize(b) ==
    IF b._mode = "kRegular" THEN PutStateCtx(b, ES_flush(StateCtx(b)))
    ELSE _flushSubObjMode(b)

\* lines 360-363
_writeEOOAndCount(b) ==
    IF b.status # "ok" THEN b
    ELSE [b EXCEPT !._bufBuilder =
             WriteElementCount(Append(@, ByteCell(EOO)), b._elementCount)]

\* BSONColumnBuilder::finalize
BSONColumnBuilder_finalize(b) == _writeEOOAndCount(_flushForFinalize(b))

-----------------------------------------------------------------------------
(* State *)

VARIABLES
    _mode,                 \* Mode
    _elementCount,         \* uint32_t
    _bufBuilder,           \* the output buffer
    _state,                \* the Regular EncodingState
    _referenceSubObj,      \* BSONObj
    _bufferedObjElements,  \* std::vector<BSONObj>
    _subobjStates,         \* one EncodingState per leaf of the reference
    _subobjBuffers,        \* per leaf: [first: BufBuilder, second: control blocks]
    _flattenedAppendedObj, \* std::vector<BSONElement>
    staleFront,            \* what slot 0 of _bufferedObjElements' storage holds
    aborted,               \* an invariant() failed or the process crashed
    finalized,             \* finalize() has returned
    calls,                 \* every call made: [op, arg, ok, mode before the call]
    budget,                \* how many more calls the caller makes
    argReference,          \* traverseLockStep / mergeObj called on their own:
    argObj,                \*   'reference', 'obj', and a third object
    argOther,
    retMerged,             \* what mergeObj(argReference, argObj) returned
    retTraversed           \* what traverseLockStep(argReference, argObj) returned

builder == <<_mode, _elementCount, _bufBuilder, _state, _referenceSubObj,
             _bufferedObjElements, _subobjStates, _subobjBuffers>>

vars == <<_mode, _elementCount, _bufBuilder, _state, _referenceSubObj,
          _bufferedObjElements, _subobjStates, _subobjBuffers,
          _flattenedAppendedObj, staleFront, aborted, finalized, calls, budget,
          argReference, argObj, argOther, retMerged, retTraversed>>

\* the free functions' arguments and results
free == <<argReference, argObj, argOther, retMerged, retTraversed>>

\* a function that has not been called has returned nothing
NotCalled == [called |-> FALSE]

\* the builder as the record the operations work on
Builder(ub) ==
    [_mode |-> _mode, _elementCount |-> _elementCount, _bufBuilder |-> _bufBuilder,
     _state |-> _state, _referenceSubObj |-> _referenceSubObj,
     _bufferedObjElements |-> _bufferedObjElements, _subobjStates |-> _subobjStates,
     _subobjBuffers |-> _subobjBuffers, _flattenedAppendedObj |-> _flattenedAppendedObj,
     staleFront |-> staleFront, status |-> "ok", ub |-> ub, depth |-> 0]

Commit(r) ==
    /\ _mode' = r._mode
    /\ _elementCount' = r._elementCount
    /\ _bufBuilder' = r._bufBuilder
    /\ _state' = r._state
    /\ _referenceSubObj' = r._referenceSubObj
    /\ _bufferedObjElements' = r._bufferedObjElements
    /\ _subobjStates' = r._subobjStates
    /\ _subobjBuffers' = r._subobjBuffers
    /\ _flattenedAppendedObj' = r._flattenedAppendedObj
    /\ staleFront' = r.staleFront
    /\ aborted' = (r.status = "abort")

Call(op, arg, r) == [op |-> op, arg |-> arg, ok |-> r.status = "ok", mode |-> _mode]

\* BSONColumnBuilder(fieldName): skip(kElementCountBytes) leaves the count bytes
Constructed ==
    /\ _mode = "kRegular"
    /\ _elementCount = 0
    /\ _bufBuilder = [i \in 1..kElementCountBytes |-> ByteCell(0)]
    /\ _state = EncodingState(FALSE)
    /\ _referenceSubObj = <<>>
    /\ _bufferedObjElements = <<>>
    /\ _subobjStates = <<>>
    /\ _subobjBuffers = <<>>
    /\ _flattenedAppendedObj = <<>>
    /\ staleFront = <<>>
    /\ aborted = FALSE
    /\ finalized = FALSE
    /\ calls = <<>>

\* no call of the free functions is made
NoFreeCalls ==
    /\ argReference = <<>> /\ argObj = <<>> /\ argOther = <<>>
    /\ retMerged = NotCalled /\ retTraversed = NotCalled

-----------------------------------------------------------------------------
(* Inputs *)

MaxOps == 5
UBOutcomes == {"crash", "stale"}

NumberInt(name, v) == Elem(name, "NumberInt", v, <<>>)
Obj(name, fields) == Elem(name, "Object", 0, fields)
MinKeyElem(name) == Elem(name, "MinKey", 0, <<>>)

\* a value whose delta against 0 takes a whole Simple-8b block
Wide == 2^29

Scalars == {NumberInt("", 0), NumberInt("", Wide), Elem("", "String", 1, <<>>)}
Objects ==
    {Obj("", <<NumberInt("a", 0)>>),
     Obj("", <<NumberInt("a", Wide)>>),
     Obj("", <<NumberInt("a", 0), NumberInt("b", Wide)>>),
     Obj("", <<Obj("a", <<>>)>>),
     Obj("", <<NumberInt("a", 0), MinKeyElem("b")>>)}
Inputs == Scalars \cup {MinKeyElem(""), Obj("", <<>>)} \cup Objects

-----------------------------------------------------------------------------
(* Actions *)

Live == ~aborted /\ ~finalized /\ budget > 0 /\ budget' = budget - 1 /\ UNCHANGED free

append(elem) ==
    /\ Live
    /\ \E ub \in UBOutcomes :
         LET r == BSONColumnBuilder_append(Builder(ub), elem) IN
         /\ Commit(r)
         /\ calls' = Append(calls, Call("append", elem, r))
    /\ UNCHANGED finalized

skip ==
    /\ Live
    /\ LET r == BSONColumnBuilder_skip(Builder("crash")) IN
       /\ Commit(r)
       /\ calls' = Append(calls, Call("skip", EOOElem, r))
    /\ UNCHANGED finalized

finalize ==
    /\ Live
    /\ \E ub \in UBOutcomes :
         LET r == BSONColumnBuilder_finalize(Builder(ub)) IN
         /\ Commit(r)
         /\ calls' = Append(calls, Call("finalize", EOOElem, r))
         /\ finalized' = (r.status = "ok")

Init == Constructed /\ NoFreeCalls /\ budget = MaxOps

Next == (\E elem \in Inputs : append(elem)) \/ skip \/ finalize

Spec == Init /\ [][Next]_vars

-----------------------------------------------------------------------------
(* A caller that appends one long stream, of scalars or of objects {a: v},  *)
(* whose values alternate between 0 and Wide: every delta fills a Simple-8b *)
(* block of its own, so that runs of sixteen blocks and more are written.   *)
(* Up to MaxRunOther calls are skips or repeat the last value.              *)

MaxRunOps == 19
MaxRunOther == 1

Appends == {i \in 1..Len(calls) : calls[i].op = "append"}
LastAppended == calls[SetMax(Appends)].arg
\* the value of the stream's elements: the scalar itself, or field a
RunValue(elem) == IF elem.t = "Object" THEN elem.o[1].n ELSE elem.n
RunElem(like, v) ==
    IF like.t = "Object" THEN Obj("", <<NumberInt("a", v)>>) ELSE NumberInt("", v)
\* calls that did not continue the alternation
Others ==
    {i \in 1..Len(calls) :
        \/ calls[i].op = "skip"
        \/ /\ calls[i].op = "append"
           /\ \E j \in Appends : /\ j < i
                                 /\ \A k \in Appends : ~(j < k /\ k < i)
                                 /\ calls[j].arg = calls[i].arg}
OthersLeft == Cardinality(Others) < MaxRunOther
RunInputs ==
    IF Appends = {} THEN {NumberInt("", 0), Obj("", <<NumberInt("a", 0)>>)}
    ELSE {RunElem(LastAppended, Wide - RunValue(LastAppended))}
         \cup (IF OthersLeft THEN {LastAppended} ELSE {})

InitRun == Constructed /\ NoFreeCalls /\ budget = MaxRunOps

NextRun ==
    \/ \E elem \in RunInputs : append(elem)
    \/ OthersLeft /\ skip
    \/ finalize

SpecRun == InitRun /\ [][NextRun]_vars

-----------------------------------------------------------------------------
(* traverseLockStep and mergeObj called on their own, on every pair of      *)
(* objects of at most MaxFields fields named a or b, a field being a number *)
(* or an object that is empty or holds one number; a third object stands    *)
(* for any other object the builder may have buffered.                      *)

MaxFields == 2

FreeNested == {<<>>, <<NumberInt("c", 0)>>}
FreeFields ==
    {NumberInt(n, 0) : n \in {"a", "b"}}
        \cup {Obj(n, o) : n \in {"a", "b"}, o \in FreeNested}
FreeObjects == UNION {[1..k -> FreeFields] : k \in 0..MaxFields}

callMergeObj ==
    /\ ~retMerged.called
    /\ retMerged' = [called |-> TRUE, ret |-> mergeObj(argReference, argObj)]
    /\ UNCHANGED <<builder, _flattenedAppendedObj, staleFront, aborted, finalized,
                   calls, budget, argReference, argObj, argOther, retTraversed>>

callTraverseLockStep ==
    /\ ~retTraversed.called
    /\ retTraversed' = [called |-> TRUE, ret |-> traverseLockStep(argReference, argObj)]
    /\ UNCHANGED <<builder, _flattenedAppendedObj, staleFront, aborted, finalized,
                   calls, budget, argReference, argObj, argOther, retMerged>>

InitFree ==
    /\ Constructed /\ budget = 0
    /\ argReference \in FreeObjects /\ argObj \in FreeObjects /\ argOther \in FreeObjects
    /\ retMerged = NotCalled /\ retTraversed = NotCalled

NextFree == callMergeObj \/ callTraverseLockStep

SpecFree == InitFree /\ [][NextFree]_vars

\* mergeObj() and traverseLockStep() on objects of up to three fields with
\* distinct names, in every order
MaxOrderFields == 3

OrderFields ==
    {NumberInt(n, 0) : n \in {"a", "b", "c"}} \cup {Obj("a", <<NumberInt("c", 0)>>)}
OrderObjects ==
    {o \in UNION {[1..k -> OrderFields] : k \in 0..MaxOrderFields} :
        \A i, k \in 1..Len(o) : o[i].name = o[k].name => i = k}

InitOrder ==
    /\ Constructed /\ budget = 0
    /\ argReference \in OrderObjects /\ argObj \in OrderObjects /\ argOther = <<>>
    /\ retMerged = NotCalled /\ retTraversed = NotCalled

SpecOrder == InitOrder /\ [][NextFree]_vars

-----------------------------------------------------------------------------
(* A caller that appends objects of different shapes, none holding MinKey   *)
(* or MaxKey: fields in either order, a field that is a number in one       *)
(* object and an object in another, empty nested objects.                   *)

MaxSubOps == 5

SubObjects ==
    {Obj("", <<NumberInt("a", 0)>>),
     Obj("", <<NumberInt("b", 0)>>),
     Obj("", <<NumberInt("a", 0), NumberInt("b", 0)>>),
     Obj("", <<NumberInt("b", 0), NumberInt("a", 0)>>),
     Obj("", <<Obj("a", <<NumberInt("c", 0)>>)>>),
     Obj("", <<Obj("a", <<>>)>>),
     Obj("", <<Obj("a", <<>>), NumberInt("b", 0)>>)}
SubInputs == SubObjects \cup {NumberInt("", 0)}

InitSub == Constructed /\ NoFreeCalls /\ budget = MaxSubOps

NextSub == (\E elem \in SubInputs : append(elem)) \/ skip \/ finalize

SpecSub == InitSub /\ [][NextSub]_vars

-----------------------------------------------------------------------------
(* The builder on doubles: 1.0 and a double that only encodes as its       *)
(* memory, as scalars and as the leaf of an object.                        *)

MaxDoubleOps == 6

NumberDouble(name, n) == Elem(name, "NumberDouble", n, <<>>)

DoubleValues == {100, 2^30}
DoubleInputs ==
    {NumberDouble("", n) : n \in DoubleValues}
        \cup {Obj("", <<NumberDouble("a", n)>>) : n \in DoubleValues}

InitDouble == Constructed /\ NoFreeCalls /\ budget = MaxDoubleOps

NextDouble == (\E elem \in DoubleInputs : append(elem)) \/ skip \/ finalize

SpecDouble == InitDouble /\ [][NextDouble]_vars

-----------------------------------------------------------------------------
(* The builder on objects of two leaves that change their type, so that    *)
(* the per-leaf encoders write different numbers of control blocks.        *)

MaxTypeOps == 5

Timestamp(name, n) == Elem(name, "bsonTimestamp", n, <<>>)

\* doubles (1.0 and one that only encodes as its bits), timestamps, and
\* values that have no delta (two arrays, the empty object, a string and a
\* binary too long for 128 bits), as scalars and as the leaf of an object
TypeInputs ==
    {NumberDouble("", 100), NumberDouble("", 2^30), Timestamp("", 0), Timestamp("", 1),
     Elem("", "Array", 1, <<>>), Elem("", "Array", 2, <<>>),
     Elem("", "String", -1, <<>>),
     Elem("", "BinData", -1, <<>>), Obj("", <<>>),
     Obj("", <<NumberDouble("a", 100)>>), Obj("", <<Timestamp("a", 1)>>),
     Obj("", <<Elem("a", "String", -1, <<>>)>>)}

InitTypes == Constructed /\ NoFreeCalls /\ budget = MaxTypeOps

NextTypes == (\E elem \in TypeInputs : append(elem)) \/ skip \/ finalize

SpecTypes == InitTypes /\ [][NextTypes]_vars

MaxBytesOps == 4

String(name, n) == Elem(name, "String", n, <<>>)
BinData(name, subtype, size, content) ==
    Elem(name, "BinData", subtype * 100 + size * 10 + content, <<>>)

\* two strings of more than 16 bytes (n < 0) and a short one; binaries that
\* differ in one of bytes, size and subtype; strings as the leaf of an object
BytesInputs ==
    {String("", -1), String("", -2), String("", 1),
     BinData("", 0, 1, 0), BinData("", 0, 1, 1), BinData("", 0, 2, 0), BinData("", 1, 1, 0),
     Obj("", <<String("a", -1)>>), Obj("", <<String("a", -2)>>)}

InitBytes == Constructed /\ NoFreeCalls /\ budget = MaxBytesOps

NextBytes == (\E elem \in BytesInputs : append(elem)) \/ skip \/ finalize

SpecBytes == InitBytes /\ [][NextBytes]_vars

MaxTimestampOps == 5

\* timestamps with first-order deltas 0, 1, 2 and 3, as scalars and as the
\* leaf of an object
TimestampInputs ==
    {Timestamp("", n) : n \in 0..3} \cup {Obj("", <<Timestamp("a", n)>>) : n \in {0, 1, 3}}

InitTimestamp == Constructed /\ NoFreeCalls /\ budget = MaxTimestampOps

NextTimestamp == (\E elem \in TimestampInputs : append(elem)) \/ skip \/ finalize

SpecTimestamp == InitTimestamp /\ [][NextTimestamp]_vars

MaxRescaleOps == 8

\* the doubles 1.0, 1.01, 9.0 and 10.0: scale indices 0 and 2, and deltas of
\* 11 bits at scale index 2
RescaleInputs == {NumberDouble("", n) : n \in {100, 101, 900, 1000}}

InitRescale == Constructed /\ NoFreeCalls /\ budget = MaxRescaleOps

NextRescale == (\E elem \in RescaleInputs : append(elem)) \/ skip \/ finalize

SpecRescale == InitRescale /\ [][NextRescale]_vars

MaxPendingOps == 11

\* the doubles 1.01, 1.02 and 1.99: deltas of 1, 2 and 8 bits at scale index
\* 2, so that nine deltas can be pending when a tenth does not fit
PendingInputs == {NumberDouble("", n) : n \in {101, 102, 199}}

InitPending == Constructed /\ NoFreeCalls /\ budget = MaxPendingOps

NextPending == (\E elem \in PendingInputs : append(elem)) \/ finalize

SpecPending == InitPending /\ [][NextPending]_vars

MaxLeafOps == 6

LeafInputs ==
    {Obj("", <<NumberInt("a", 0), NumberInt("b", 0)>>),
     Obj("", <<Elem("a", "String", 1, <<>>), NumberInt("b", 0)>>),
     Obj("", <<NumberInt("a", 0), Elem("b", "String", 1, <<>>)>>)}

InitLeaf == Constructed /\ NoFreeCalls /\ budget = MaxLeafOps

NextLeaf == (\E elem \in LeafInputs : append(elem)) \/ skip \/ finalize

SpecLeaf == InitLeaf /\ [][NextLeaf]_vars

-----------------------------------------------------------------------------
(* The wire format read back (spec.md, sections 4.4 and 6): literals,       *)
(* Simple-8b runs and interleaved sections, up to the EOO terminator.       *)

\* a row with no value
Missing == EOOElem
\* what a reader yields where the bytes are not a column
Malformed == Elem("", "Malformed", 0, <<>>)

IsByte(buf, pos) == pos <= Len(buf) /\ buf[pos].k = "byte"
IsEOOAt(buf, pos) == IsByte(buf, pos) /\ buf[pos].b = EOO
IsLiteralAt(buf, pos) ==
    /\ IsByte(buf, pos) /\ buf[pos].b # EOO /\ isLiteralControlByte(buf[pos].b)
    /\ IsByte(buf, pos + 1) /\ buf[pos + 1].b = 0
    /\ pos + 2 <= Len(buf) /\ buf[pos + 2].k = "value"
    /\ TypeByte(buf[pos + 2].e.t) = buf[pos].b
IsSimple8bControl(b) == b >= 128 /\ b < 224
IsRunAt(buf, pos) ==
    /\ IsByte(buf, pos) /\ IsSimple8bControl(buf[pos].b)
    /\ \A k \in 1..numSimple8bBlocksForControlByte(buf[pos].b) :
          pos + k <= Len(buf) /\ buf[pos + k].k = "block"
IsInterleavedStartAt(buf, pos) ==
    /\ IsByte(buf, pos) /\ buf[pos].b = kInterleavedStartControlByte
    /\ pos + 1 <= Len(buf) /\ buf[pos + 1].k = "value" /\ buf[pos + 1].e.t = "Object"

\* the cell after the control block (literal or run) at pos
AfterControlBlock(buf, pos) ==
    IF IsLiteralAt(buf, pos) THEN pos + 3
    ELSE pos + 1 + numSimple8bBlocksForControlByte(buf[pos].b)

\* expandDelta: the value a Simple-8b slot stands for, given the previous value
DecodeSlot(prev, slot) ==
    IF slot = kSkip THEN Missing
    ELSE IF prev.t \in {"EOO", "Malformed"} THEN Malformed
    ELSE IF prev.t \in {"NumberInt", "NumberLong", "Date", "Bool", "jstOID",
                        "String", "BinData", "NumberDecimal"}
    THEN [prev EXCEPT !.n = @ + decodeInt64(slot)]
    ELSE IF slot = 0 THEN prev ELSE Malformed

\* the values of the slots from index i, each a delta against the one before
RECURSIVE DecodeSlots(_, _, _, _)
DecodeSlots(prev, slots, i, out) ==
    IF i > Len(slots) THEN [vals |-> out, prev |-> prev]
    ELSE LET v == DecodeSlot(prev, slots[i]) IN
         DecodeSlots(IF v = Missing THEN prev ELSE v, slots, i + 1, Append(out, v))

RECURSIVE RunSlots(_, _, _)
RunSlots(buf, pos, k) ==
    IF k = 0 THEN <<>> ELSE RunSlots(buf, pos, k - 1) \o buf[pos + k].s

\* the values of the control block at pos: [vals, prev]
DecodeControlBlock(buf, pos, prev) ==
    IF IsLiteralAt(buf, pos)
    THEN [vals |-> <<buf[pos + 2].e>>, prev |-> buf[pos + 2].e]
    ELSE DecodeSlots(prev,
                     RunSlots(buf, pos, numSimple8bBlocksForControlByte(buf[pos].b)),
                     1, <<>>)

\* the object a row of leaf values stands for: the reference's structure with
\* the leaves that have a value.  Result [fields, k]: k leaves consumed.
RECURSIVE Materialize(_, _, _, _, _)
Materialize(reference, i, vals, k, fields) ==
    IF i > Len(reference) THEN [fields |-> fields, k |-> k]
    ELSE LET elem == reference[i] IN
         IF elem.t = "Object"
         THEN LET sub == Materialize(elem.o, 1, vals, k, <<>>) IN
              Materialize(reference, i + 1, vals, sub.k,
                          IF IsEmptyObj(elem.o) \/ sub.fields # <<>>
                          THEN Append(fields, Obj(elem.name, sub.fields))
                          ELSE fields)
         ELSE Materialize(reference, i + 1, vals, k + 1,
                          IF vals[k + 1] = Missing THEN fields
                          ELSE Append(fields, [vals[k + 1] EXCEPT !.name = elem.name]))

Row(reference, vals) ==
    LET m == Materialize(reference, 1, vals, 0, <<>>) IN
    IF m.fields = <<>> THEN Missing ELSE Obj("", m.fields)

\* every decoder whose values are used up reads the next control block, in
\* index order: [decs, pos, ended]
RECURSIVE FillDecoders(_, _, _, _)
FillDecoders(buf, pos, decs, i) ==
    IF i > Len(decs) THEN [decs |-> decs, pos |-> pos, ended |-> FALSE]
    ELSE IF decs[i].q # <<>> THEN FillDecoders(buf, pos, decs, i + 1)
    ELSE IF ~(IsLiteralAt(buf, pos) \/ IsRunAt(buf, pos))
    THEN [decs |-> decs, pos |-> pos, ended |-> TRUE]
    ELSE LET d == DecodeControlBlock(buf, pos, decs[i].prev) IN
         FillDecoders(buf, AfterControlBlock(buf, pos),
                      [decs EXCEPT ![i] = [prev |-> d.prev, q |-> d.vals]], i + 1)

\* the rows of an interleaved section whose control blocks start at pos:
\* [rows, pos], pos at the byte that ends the section
RECURSIVE DecodeInterleaved(_, _, _, _, _)
DecodeInterleaved(buf, pos, reference, decs, rows) ==
    IF decs = <<>> THEN [rows |-> rows, pos |-> pos]
    ELSE LET f == FillDecoders(buf, pos, decs, 1) IN
         IF f.ended THEN [rows |-> rows, pos |-> f.pos]
         ELSE DecodeInterleaved(
                  buf, f.pos, reference,
                  [i \in 1..Len(decs) |-> [f.decs[i] EXCEPT !.q = Tail(@)]],
                  Append(rows, Row(reference,
                                   [i \in 1..Len(decs) |-> Head(f.decs[i].q)])))

\* the rows of the body from pos on, up to the EOO terminator
RECURSIVE DecodeBody(_, _, _, _)
DecodeBody(buf, pos, prev, rows) ==
    IF IsEOOAt(buf, pos) THEN rows
    ELSE IF IsLiteralAt(buf, pos) \/ IsRunAt(buf, pos)
    THEN LET d == DecodeControlBlock(buf, pos, prev) IN
         DecodeBody(buf, AfterControlBlock(buf, pos), d.prev, rows \o d.vals)
    ELSE IF IsInterleavedStartAt(buf, pos)
    THEN LET reference == buf[pos + 1].e.o
             leaves == _traverse(reference)
             s == DecodeInterleaved(buf, pos + 2, reference,
                     [i \in 1..Len(leaves) |-> [prev |-> [leaves[i][1] EXCEPT !.name = ""],
                                                q |-> <<>>]],
                     <<>>)
         IN IF IsEOOAt(buf, s.pos)
            THEN DecodeBody(buf, s.pos + 1, EOOElem, rows \o s.rows)
            ELSE Append(rows \o s.rows, Malformed)
    ELSE Append(rows, Malformed)

\* the element count in bytes 0..3
DecodeElementCount(buf) ==
    buf[1].b + 256 * buf[2].b + 65536 * buf[3].b + 16777216 * buf[4].b

\* decode(bytes): the rows of a finalized column
Decode(buf) == DecodeBody(buf, kElementCountBytes + 1, EOOElem, <<>>)

\* S: the accepted calls as rows, a skip as Missing
RECURSIVE AcceptedRows(_, _)
AcceptedRows(cs, i) ==
    IF i > Len(cs) THEN <<>>
    ELSE (IF cs[i].ok /\ cs[i].op = "append" THEN <<[cs[i].arg EXCEPT !.name = ""]>>
          ELSE IF cs[i].op = "skip" THEN <<Missing>>
          ELSE <<>>) \o AcceptedRows(cs, i + 1)

-----------------------------------------------------------------------------
(* Properties *)

\* the call a step has just made
LastCall == calls[Len(calls)]
IsCall(op) == calls # <<>> /\ LastCall.op = op
\* the calls of kind 'ops' that returned
Returned(ops) == {i \in 1..Len(calls) : calls[i].op \in ops /\ calls[i].ok}
Modes == {"kRegular", "kSubObjDeterminingReference", "kSubObjAppending"}

\* C1: decoding the bytes finalize() returns gives back the accepted calls:
\* as many rows, in order, each the appended value, or missing for a skip.
RoundTrip == finalized => Decode(_bufBuilder) = AcceptedRows(calls, 1)

\* C2: the element count is the number of append calls that returned plus the
\* number of skip calls, whatever the mode and the mode changes.
ElementCountIsCalls ==
    ~aborted => _elementCount = Cardinality(Returned({"append", "skip"}))

\* calls have returned in each of the three modes, and an append has failed
ElementCountIsCallsWitness ==
    /\ ~aborted
    /\ \A m \in Modes : \E i \in Returned({"append", "skip"}) : calls[i].mode = m
    /\ \E i \in 1..Len(calls) : calls[i].op = "append" /\ ~calls[i].ok
    /\ _elementCount = Len(calls) - 1

\* a step that is a finalize() call that returned
FinalizeReturns == ~finalized /\ finalized'

\* the last byte is EOO and bytes 0..3 are the element count, little-endian
Framed(buf, count) ==
    /\ Len(buf) > kElementCountBytes
    /\ buf[Len(buf)] = ByteCell(EOO)
    /\ \A i \in 1..kElementCountBytes :
          buf[i].k = "byte" /\ buf[i].b = (count \div 256 ^ (i - 1)) % 256

\* the control byte of the Regular encoder's open Simple-8b run, as a cell index
OpenControlByte ==
    IF _mode = "kRegular" /\ _state.controlByteOffset # kNoSimple8bControl
    THEN {_state.controlByteOffset + 1} ELSE {}

\* C3 as stated: finalize() appends EOO as the last byte, writes the element
\* count into bytes 0..3, and leaves every body byte written before unchanged.
FinalizeKeepsBody ==
    [][FinalizeReturns =>
         /\ Framed(_bufBuilder', _elementCount)
         /\ Len(_bufBuilder') > Len(_bufBuilder)
         /\ \A i \in (kElementCountBytes + 1)..Len(_bufBuilder) :
               _bufBuilder'[i] = _bufBuilder[i]]_vars

\* C3, amended: finalize() appends EOO as the last byte and writes the element
\* count into bytes 0..3; of the body bytes written before, only the control
\* byte of the open Simple-8b run may change, and only in its count nibble,
\* which grows by the blocks the flush adds.
FinalizeFrames ==
    [][FinalizeReturns =>
         /\ Framed(_bufBuilder', _elementCount)
         /\ Len(_bufBuilder') > Len(_bufBuilder)
         /\ \A i \in (kElementCountBytes + 1)..Len(_bufBuilder) :
               \/ _bufBuilder'[i] = _bufBuilder[i]
               \/ /\ i \in OpenControlByte
                  /\ _bufBuilder'[i].k = "byte"
                  /\ BitAnd(_bufBuilder'[i].b, kControlMask)
                        = BitAnd(_bufBuilder[i].b, kControlMask)
                  /\ _bufBuilder'[i].b > _bufBuilder[i].b]_vars

\* finalize() has returned after 0, Wide, 0: the run opened by the third append
\* got its second block from the flush, and three rows are counted
FinalizeFramesWitness ==
    /\ finalized
    /\ Len(calls) = 4
    /\ calls[2].arg = NumberInt("", Wide) /\ calls[3].arg = NumberInt("", 0)
    /\ _bufBuilder[8] = ByteCell(kControlByteForScaleIndex(kMemoryAsInteger) + 1)
    /\ _bufBuilder[1] = ByteCell(3)
    /\ _bufBuilder[Len(_bufBuilder)] = ByteCell(EOO)

\* a step that is an append of 'elem'-like values: the call it has just made
AppendStep == calls' # calls /\ calls'[Len(calls')].op = "append"
\* the append of the step failed with the validation error
Rejected == ~calls'[Len(calls')].ok /\ ~aborted'

\* C4: append of a MinKey or MaxKey value fails with the validation error in
\* every mode and leaves count, mode, buffer, reference, buffered objects and
\* every encoder as they were.
TopLevelMinKeyRejected ==
    [][(AppendStep /\ IsMinOrMaxKey(calls'[Len(calls')].arg.t)) =>
          Rejected /\ UNCHANGED builder]_vars

\* a MinKey was rejected in kSubObjAppending mode with sub-encoders at work
TopLevelMinKeyRejectedWitness ==
    /\ IsCall("append") /\ LastCall.arg.t = "MinKey" /\ ~LastCall.ok /\ ~aborted
    /\ LastCall.mode = "kSubObjAppending" /\ _mode = "kSubObjAppending"
    /\ _subobjStates # <<>> /\ ~HasMinOrMaxKeyLeaf(_referenceSubObj)
    /\ \A i \in 1..(Len(calls) - 1) : calls[i].ok

\* an Object element with a MinKey or MaxKey leaf at some depth
IsObjWithMinOrMaxKey(elem) == elem.t = "Object" /\ HasMinOrMaxKeyLeaf(elem.o)

\* C5: append of an Object that holds a MinKey or MaxKey leaf fails in every
\* mode; such an object is never buffered and never merged into the reference.
MinKeyLeafRejected ==
    /\ \A i \in 1..Len(calls) :
          (calls[i].op = "append" /\ IsObjWithMinOrMaxKey(calls[i].arg)) => ~calls[i].ok
    /\ \A i \in 1..Len(_bufferedObjElements) :
          ~HasMinOrMaxKeyLeaf(_bufferedObjElements[i])
    /\ ~HasMinOrMaxKeyLeaf(_referenceSubObj)

\* C6: when append fails with the validation error because the Object holds a
\* MinKey/MaxKey leaf, the builder is as it was before the call.
RejectedObjectLeavesState ==
    [][(AppendStep /\ IsObjWithMinOrMaxKey(calls'[Len(calls')].arg) /\ Rejected) =>
          UNCHANGED builder]_vars

\* the cell after the control blocks that start at pos
RECURSIVE AfterControlBlocks(_, _)
AfterControlBlocks(buf, pos) ==
    IF IsLiteralAt(buf, pos) \/ IsRunAt(buf, pos)
    THEN AfterControlBlocks(buf, AfterControlBlock(buf, pos))
    ELSE pos

\* from pos on the body is control blocks and interleaved sections, each
\* section start byte, reference, control blocks, one EOO, and then the EOO
\* that is the last byte
RECURSIVE WellFramedFrom(_, _)
WellFramedFrom(buf, pos) ==
    IF IsEOOAt(buf, pos) THEN pos = Len(buf)
    ELSE IF IsLiteralAt(buf, pos) \/ IsRunAt(buf, pos)
    THEN WellFramedFrom(buf, AfterControlBlock(buf, pos))
    ELSE IF IsInterleavedStartAt(buf, pos)
    THEN /\ IsEOOAt(buf, AfterControlBlocks(buf, pos + 2))
         /\ WellFramedFrom(buf, AfterControlBlocks(buf, pos + 2) + 1)
    ELSE FALSE

\* C8: after finalize the body is well framed: every interleaved start byte is
\* followed by the reference and the section's control blocks and closed by
\* exactly one EOO, sections do not nest, and no other EOO is at body level
\* but the final terminator.
BodyWellFramed == finalized => WellFramedFrom(_bufBuilder, kElementCountBytes + 1)

\* C9: appending an empty Object never enters a sub-object mode: in Regular
\* mode the call returns with the mode still Regular, no reference captured,
\* nothing buffered, and the empty Object taken by the Regular encoder as its
\* value, like a scalar.
EmptyObjectIsScalar ==
    [][(AppendStep /\ calls'[Len(calls')].arg = Obj("", <<>>) /\ _mode = "kRegular") =>
          /\ calls'[Len(calls')].ok /\ ~aborted'
          /\ _mode' = "kRegular"
          /\ _state'.prev = Obj("", <<>>)
          /\ _elementCount' = _elementCount + 1
          /\ UNCHANGED <<_referenceSubObj, _bufferedObjElements,
                         _subobjStates, _subobjBuffers>>]_vars

\* an empty Object was appended in Regular mode after a scalar, and its
\* literal is the last thing in the buffer
EmptyObjectIsScalarWitness ==
    /\ IsCall("append") /\ LastCall.arg = Obj("", <<>>) /\ LastCall.ok
    /\ LastCall.mode = "kRegular" /\ _mode = "kRegular"
    /\ Len(calls) > 1 /\ calls[Len(calls) - 1].mode = "kRegular"
    /\ Len(_bufBuilder) > 3
    /\ _bufBuilder[Len(_bufBuilder)] = ValueCell(Obj("", <<>>))
    /\ _referenceSubObj = <<>> /\ _bufferedObjElements = <<>>

\* the bytes a step has added to the output
Added == SubSeq(_bufBuilder', Len(_bufBuilder) + 1, Len(_bufBuilder'))

\* cells is control blocks, then one EOO, then the literal of elem, and
\* nothing more
IsSectionEndThenLiteral(cells, elem) ==
    /\ IsEOOAt(cells, AfterControlBlocks(cells, 1))
    /\ AfterControlBlocks(cells, 1) + 3 = Len(cells)
    /\ SubSeq(cells, Len(cells) - 2, Len(cells)) = PrevBytes(elem)

\* C10: a non-Object value or an empty Object appended in a sub-object mode
\* returns with the section completed (start byte and reference if they were
\* not yet written, the control blocks, one EOO), then the value's literal
\* from the Regular encoder, and the builder in Regular mode.
ScalarEndsSection ==
    [][(/\ AppendStep
        /\ IsScalarOrEmptyObj(calls'[Len(calls')].arg)
        /\ ValidForStorage(calls'[Len(calls')].arg.t)
        /\ _mode # "kRegular") =>
          /\ calls'[Len(calls')].ok
          /\ _mode' = "kRegular"
          /\ Len(_bufBuilder') > Len(_bufBuilder)
          /\ \A i \in 1..Len(_bufBuilder) : _bufBuilder'[i] = _bufBuilder[i]
          /\ IF _mode = "kSubObjDeterminingReference"
             THEN /\ IsInterleavedStartAt(Added, 1)
                  /\ Added[2] = ObjData(_referenceSubObj)
                  /\ IsSectionEndThenLiteral(SubSeq(Added, 3, Len(Added)),
                                             calls'[Len(calls')].arg)
             ELSE IsSectionEndThenLiteral(Added, calls'[Len(calls')].arg)]_vars

\* from pos on, every Simple-8b control byte is followed by exactly (lower
\* nibble + 1) blocks, and every block is one of those
RECURSIVE RunsWellFormedFrom(_, _)
RunsWellFormedFrom(buf, pos) ==
    IF pos > Len(buf) THEN TRUE
    ELSE IF buf[pos].k = "block" THEN FALSE
    ELSE IF buf[pos].k = "byte" /\ IsSimple8bControl(buf[pos].b)
    THEN /\ IsRunAt(buf, pos)
         /\ numSimple8bBlocksForControlByte(buf[pos].b) \in 1..kMaxCount
         /\ RunsWellFormedFrom(buf, AfterControlBlock(buf, pos))
    ELSE RunsWellFormedFrom(buf, pos + 1)

\* C7: in the output of every encoder each Simple-8b run is one control byte
\* followed by exactly (lower nibble + 1) blocks, 1 to 16 of them; a 17th
\* consecutive block starts a new run with a new control byte.
RunsWellFormed ==
    /\ RunsWellFormedFrom(_bufBuilder, kElementCountBytes + 1)
    /\ \A i \in 1..Len(_subobjBuffers) : RunsWellFormedFrom(_subobjBuffers[i].first, 1)

\* a run of sixteen blocks is followed at once by the control byte of a new run
FullRunThenNewRun(buf) ==
    \E pos \in 1..Len(buf) :
        /\ IsRunAt(buf, pos)
        /\ numSimple8bBlocksForControlByte(buf[pos].b) = kMaxCount
        /\ IsRunAt(buf, pos + kMaxCount + 1)

\* the Regular encoder has written a 17th consecutive block
RunsWellFormedWitness == ~aborted /\ _mode = "kRegular" /\ FullRunThenNewRun(_bufBuilder)

-----------------------------------------------------------------------------
(* Literals *)

\* the values held by the Simple-8b blocks of a buffer
RECURSIVE SlotCount(_)
SlotCount(buf) ==
    IF buf = <<>> THEN 0
    ELSE SlotCount(Tail(buf)) + (IF Head(buf).k = "block" THEN Len(Head(buf).s) ELSE 0)

\* the encoder (es, buf) has become (es2, buf2) by writing 'elem' as a
\* literal: what was pending went out as blocks, the literal is the last
\* thing written, nothing is pending and no value was added to Simple-8b
WroteLiteral(es, buf, es2, buf2, elem) ==
    /\ Len(buf2) >= Len(buf) + 3
    /\ \A i \in 1..Len(buf) :
          \/ buf2[i] = buf[i]
          \/ /\ es.controlByteOffset # kNoSimple8bControl
             /\ i = es.controlByteOffset + 1
             /\ buf2[i].k = "byte"
             /\ BitAnd(buf2[i].b, kControlMask) = BitAnd(buf[i].b, kControlMask)
    /\ SubSeq(buf2, Len(buf2) - 2, Len(buf2)) = PrevBytes(elem)
    /\ \A i \in (Len(buf) + 1)..(Len(buf2) - 3) :
          buf2[i].k = "block" \/ (buf2[i].k = "byte" /\ IsSimple8bControl(buf2[i].b))
    /\ es2.s64 = <<>> /\ es2.s128 = <<>>
    /\ SlotCount(buf2) = SlotCount(buf) + Len(es.s64) + Len(es.s128)
    /\ es2.prev = [elem EXCEPT !.name = ""]
    /\ es2.controlByteOffset = kNoSimple8bControl

\* the step is a successful append by the Regular encoder, in Regular mode
RegularAppendStep ==
    /\ AppendStep /\ calls'[Len(calls')].ok
    /\ _mode = "kRegular" /\ IsScalarOrEmptyObj(calls'[Len(calls')].arg)

\* the step is a successful append of an object to the per-leaf encoders
SubObjAppendStep ==
    /\ AppendStep /\ calls'[Len(calls')].ok
    /\ _mode = "kSubObjAppending" /\ _mode' = "kSubObjAppending"
    /\ ~IsScalarOrEmptyObj(calls'[Len(calls')].arg)

\* what per-leaf encoder i receives from the object appended in the step
LeafAppended(i) == traverseLockStep(_referenceSubObj, calls'[Len(calls')].arg.o).pairs[i][2]

\* C11, amended: an encoder writes a literal, and pushes no delta to
\* Simple-8b, for every value whose type differs from the type of its stored
\* previous value; the previous value is the EOO element when the encoder is
\* the Regular encoder and has received nothing yet, and the leaf of the
\* reference object when the encoder is a per-leaf encoder.
LiteralOnTypeChange ==
    [][/\ (RegularAppendStep /\ calls'[Len(calls')].arg.t # _state.prev.t) =>
             WroteLiteral(_state, _bufBuilder, _state', _bufBuilder',
                          calls'[Len(calls')].arg)
       /\ SubObjAppendStep =>
             \A i \in 1..Len(_subobjStates) :
                 LeafAppended(i).t \notin {"EOO", _subobjStates[i].prev.t} =>
                     WroteLiteral(_subobjStates[i], _subobjBuffers[i].first,
                                  _subobjStates'[i], _subobjBuffers'[i].first,
                                  LeafAppended(i))]_vars

\* the per-leaf encoders are created in the step
SubStatesCreated ==
    /\ AppendStep /\ calls'[Len(calls')].ok
    /\ _subobjStates = <<>> /\ _subobjStates' # <<>> /\ _mode' = "kSubObjAppending"

\* C11 as stated: the first value an encoder receives is a literal too, so a
\* per-leaf encoder that has received a value has a literal in its buffer or
\* has just written one.
LiteralOnFirstValue ==
    [][/\ (RegularAppendStep /\ calls'[Len(calls')].arg.t # _state.prev.t) =>
             WroteLiteral(_state, _bufBuilder, _state', _bufBuilder',
                          calls'[Len(calls')].arg)
       /\ SubStatesCreated =>
             \A i \in 1..Len(_subobjStates') :
                 \A k \in 1..Len(_bufferedObjElements) :
                     traverseLockStep(_referenceSubObj', _bufferedObjElements[k]).pairs[i][2].t
                           # "EOO" =>
                        \E pos \in 1..Len(_subobjBuffers'[i].first) :
                            IsLiteralAt(_subobjBuffers'[i].first, pos)]_vars

\* the Regular encoder has written 0 as a literal (its first value), a zero
\* delta is pending, and a String follows: the pending delta is written as a
\* block and the String as a literal, with nothing left pending
LiteralOnTypeChangeWitness ==
    /\ ~aborted /\ _mode = "kRegular" /\ Len(calls) = 3
    /\ calls[1].arg = NumberInt("", 0) /\ calls[2].arg = NumberInt("", 0)
    /\ calls[3].arg.t = "String" /\ calls[3].ok
    /\ SubSeq(_bufBuilder, kElementCountBytes + 1, Len(_bufBuilder))
          = PrevBytes(NumberInt("", 0))
              \o <<ByteCell(kControlByteForScaleIndex(kMemoryAsInteger)), BlockCell(<<0>>)>>
              \o PrevBytes(calls[3].arg)
    /\ _state.s64 = <<>> /\ _state.s128 = <<>>

-----------------------------------------------------------------------------
(* Sub-object modes *)

\* the step is an append of a non-empty object in kSubObjDeterminingReference
\* mode whose traversal against the reference raised no validation error
DeterminingAppendStep ==
    /\ AppendStep
    /\ _mode = "kSubObjDeterminingReference"
    /\ ~IsScalarOrEmptyObj(calls'[Len(calls')].arg)
    /\ FirstMinOrMaxKey(traverseLockStep(_referenceSubObj, calls'[Len(calls')].arg.o).pairs) = 0

\* the object appended in the step, its traversal against the reference and
\* its merge into the reference
AppendedObj == calls'[Len(calls')].arg.o
Traversed == traverseLockStep(_referenceSubObj, AppendedObj)
Merged == mergeObj(_referenceSubObj, AppendedObj)

\* the reference the builder goes on with: the merged one if a merge was needed
NextReference == IF Traversed.compatible THEN _referenceSubObj ELSE Merged.obj

\* C12: in kSubObjDeterminingReference mode an appended non-empty object that
\* is compatible with the reference or merges into it is buffered, the mode
\* unchanged, iff leafCount * 2 >= bufferedCount (leaves visited by the
\* traversal, queue length before the append); otherwise the reference is
\* finished, the queue replayed and the object appended in kSubObjAppending
\* mode.
BufferingHeuristic ==
    [][(DeterminingAppendStep /\ (Traversed.compatible \/ Merged.ok)) =>
          IF Len(Traversed.pairs) * 2 >= Len(_bufferedObjElements)
          THEN /\ calls'[Len(calls')].ok
               /\ _mode' = "kSubObjDeterminingReference"
               /\ _bufferedObjElements' = Append(_bufferedObjElements, AppendedObj)
               /\ _referenceSubObj' = NextReference
               /\ _bufBuilder' = _bufBuilder
               /\ _subobjStates' = <<>>
          ELSE /\ calls'[Len(calls')].ok
               /\ ~aborted'
               /\ _mode' = "kSubObjAppending"
               /\ _bufferedObjElements' = <<>>
               /\ _referenceSubObj' = NextReference
               /\ Len(_subobjStates') = Len(_traverse(NextReference))
               /\ Added = <<ByteCell(kInterleavedStartControlByte), ObjData(NextReference)>>]_vars

\* the buffered queue as rows: an empty BSONObj stands for a skip
BufferedRows ==
    [i \in 1..Len(_bufferedObjElements) |->
        IF _bufferedObjElements[i] = <<>> THEN Missing
        ELSE Obj("", _bufferedObjElements[i])]

\* cells is exactly one interleaved section with reference 'reference'
IsOneSection(cells, reference) ==
    /\ IsInterleavedStartAt(cells, 1)
    /\ cells[2] = ObjData(reference)
    /\ IsEOOAt(cells, AfterControlBlocks(cells, 3))
    /\ AfterControlBlocks(cells, 3) = Len(cells)

\* the rows a reader gets from cells, read as a body
RowsOf(cells) == DecodeBody(Append(cells, ByteCell(EOO)), 1, EOOElem, <<>>)

\* C13: in kSubObjDeterminingReference mode, when the appended object is
\* incompatible with the reference and mergeObj fails, the buffered objects
\* are emitted as one interleaved section under the reference as it was, and
\* the builder ends in kSubObjDeterminingReference mode with the new object as
\* reference and only buffered object, no sub-encoders, and the element count
\* one higher.
MergeFailureRestarts ==
    [][(DeterminingAppendStep /\ ~Traversed.compatible /\ ~Merged.ok) =>
          /\ calls'[Len(calls')].ok
          /\ ~aborted'
          /\ _mode' = "kSubObjDeterminingReference"
          /\ _referenceSubObj' = AppendedObj
          /\ _bufferedObjElements' = <<AppendedObj>>
          /\ _subobjStates' = <<>> /\ _subobjBuffers' = <<>>
          /\ _elementCount' = _elementCount + 1
          /\ \A i \in 1..Len(_bufBuilder) : _bufBuilder'[i] = _bufBuilder[i]
          /\ IsOneSection(Added, _referenceSubObj)
          /\ RowsOf(Added) = BufferedRows]_vars

\* the values a buffer holds: the slots of its Simple-8b blocks and its literals
RECURSIVE ValuesIn(_)
ValuesIn(buf) ==
    IF buf = <<>> THEN 0
    ELSE ValuesIn(Tail(buf))
         + (IF Head(buf).k = "block" THEN Len(Head(buf).s)
            ELSE IF Head(buf).k = "value" THEN 1 ELSE 0)

\* the values per-leaf encoder i holds, written or pending
RECURSIVE ValuesHeldFrom(_)
ValuesHeldFrom(i) ==
    IF i > Len(_subobjStates) THEN 0
    ELSE ValuesIn(_subobjBuffers[i].first)
         + Len(_subobjStates[i].s64) + Len(_subobjStates[i].s128)
         + ValuesHeldFrom(i + 1)

\* the step is an append, in kSubObjAppending mode, of a non-empty object that
\* is incompatible with the reference
IncompatibleAppendStep ==
    /\ AppendStep
    /\ _mode = "kSubObjAppending"
    /\ ~IsScalarOrEmptyObj(calls'[Len(calls')].arg)
    /\ ~Traversed.compatible

\* what C14 says of the step
RestartedWithAppended ==
    /\ calls'[Len(calls')].ok
    /\ ~aborted'
    /\ _mode' = "kSubObjDeterminingReference"
    /\ _referenceSubObj' = AppendedObj
    /\ _bufferedObjElements' = <<AppendedObj>>
    /\ _subobjStates' = <<>> /\ _subobjBuffers' = <<>>
    /\ \A i \in 1..Len(_bufBuilder) : _bufBuilder'[i] = _bufBuilder[i]
    /\ IsEOOAt(Added, AfterControlBlocks(Added, 1))
    /\ AfterControlBlocks(Added, 1) = Len(Added)
    /\ ValuesIn(Added) = ValuesHeldFrom(1)

RECURSIVE Leaves(_)
Leaves(o) ==
    IF o = <<>> THEN <<>>
    ELSE (IF Head(o).t = "Object" THEN Leaves(Head(o).o) ELSE <<Head(o)>>)
         \o Leaves(Tail(o))

\* C15: in kSubObjAppending mode there are as many per-leaf encoders, and as
\* many scratch buffers, as the reference object has non-Object leaves; in
\* kRegular and kSubObjDeterminingReference mode there are none.
EncoderPerLeaf ==
    ~aborted =>
        IF _mode = "kSubObjAppending"
        THEN /\ Len(_subobjStates) = Len(Leaves(_referenceSubObj))
             /\ Len(_subobjBuffers) = Len(Leaves(_referenceSubObj))
        ELSE _subobjStates = <<>> /\ _subobjBuffers = <<>>

\* the builder is in kSubObjAppending mode under the merged reference
\* {a:0, b:0}, with an encoder for a and one for b
EncoderPerLeafWitness ==
    /\ ~aborted /\ _mode = "kSubObjAppending"
    /\ _referenceSubObj = <<NumberInt("a", 0), NumberInt("b", 0)>>
    /\ Len(_subobjStates) = 2 /\ Len(_subobjBuffers) = 2
    /\ _subobjStates[1].prev = NumberInt("", 0)
    /\ \E i \in 1..Len(calls) : calls[i].arg.o = <<NumberInt("b", 0)>>

\* C16: with no MinKey or MaxKey anywhere, no sequence of append, skip and
\* finalize calls violates an internal invariant (invariant(res) in
\* _finishDetermineSubObjReference, the leaf count in _appendSubElements): the
\* builder never aborts.
NeverAborts ==
    (\A i \in 1..Len(calls) :
        ~IsMinOrMaxKey(calls[i].arg.t) /\ ~HasMinOrMaxKeyLeaf(calls[i].arg.o))
      => ~aborted

\* some object nested in o, at any depth, is empty
RECURSIVE HasEmptyNested(_)
HasEmptyNested(o) ==
    \E i \in 1..Len(o) :
        o[i].t = "Object" /\ (o[i].o = <<>> \/ HasEmptyNested(o[i].o))

\* C18: in a sub-object mode every nested object inside the reference object
\* is non-empty, whether the reference was captured from an appended object
\* or produced by mergeObj.
ReferenceHasNoEmptyObject ==
    (~aborted /\ _mode # "kRegular") => ~HasEmptyNested(_referenceSubObj)

-----------------------------------------------------------------------------
(* traverseLockStep and mergeObj *)

\* C17: when mergeObj(ref, obj) succeeds with result m, traverseLockStep(m,
\* obj) is compatible, and every object o (the empty object buffered for a
\* skip included) that is compatible with ref is compatible with m.
MergePreservesCompatibility ==
    (retMerged.called /\ retMerged.ret.ok) =>
        /\ traverseLockStep(retMerged.ret.obj, argObj).compatible
        /\ traverseLockStep(argReference, argOther).compatible =>
               traverseLockStep(retMerged.ret.obj, argOther).compatible


\* every empty Object field of 'reference' has an empty Object of the same
\* name in 'obj', and no Object field of 'reference' is non-empty where the
\* field of the same name in 'obj' is an empty Object, at every depth
RECURSIVE SameEmptyShape(_, _)
SameEmptyShape(reference, obj) ==
    \A i \in 1..Len(reference) :
        reference[i].t = "Object" =>
            IF reference[i].o = <<>>
            THEN \E k \in 1..Len(obj) :
                     /\ obj[k].name = reference[i].name
                     /\ obj[k].t = "Object"
                     /\ obj[k].o = <<>>
            ELSE \A k \in 1..Len(obj) :
                     (obj[k].name = reference[i].name /\ obj[k].t = "Object") =>
                         /\ obj[k].o # <<>>
                         /\ SameEmptyShape(reference[i].o, obj[k].o)

\* no two fields of o, and of any object nested in o, have the same name
RECURSIVE UniqueNames(_)
UniqueNames(o) ==
    /\ \A i, k \in 1..Len(o) : o[i].name = o[k].name => i = k
    /\ \A i \in 1..Len(o) : o[i].t = "Object" => UniqueNames(o[i].o)

\* C19: traverseLockStep(reference, obj) is compatible only if every empty
\* Object field of reference is matched by an empty Object of the same name
\* in obj, and no Object field is empty on one side and non-empty on the
\* other (stated for objects whose field names are unique).
EmptyShapeDiffersIncompatible ==
    (/\ retTraversed.called
     /\ retTraversed.ret.compatible
     /\ UniqueNames(argReference)
     /\ UniqueNames(argObj)) =>
        SameEmptyShape(argReference, argObj)


\* the callback sequence that pairs every leaf of o with itself
SelfPairs(o) == [i \in 1..Len(Leaves(o)) |-> <<Leaves(o)[i], Leaves(o)[i]>>]

\* C20: traverseLockStep(ref, ref) is compatible and calls the leaf callback
\* once per non-Object leaf of ref, in pre-order, with the leaf paired with
\* itself; every compatible traversal of (ref, obj) calls the callback once
\* per leaf of ref, in that order.
SelfTraversalVisitsLeaves ==
    retTraversed.called =>
        /\ argObj = argReference =>
               /\ retTraversed.ret.compatible
               /\ retTraversed.ret.pairs = SelfPairs(argReference)
        /\ retTraversed.ret.compatible =>
               /\ Len(retTraversed.ret.pairs) = Len(Leaves(argReference))
               /\ \A i \in 1..Len(retTraversed.ret.pairs) :
                      retTraversed.ret.pairs[i][1] = Leaves(argReference)[i]

\* traverseLockStep was called on ({a:{c:0}, b:0}, {a:{c:0}, b:0}) and called
\* back for (c, c) then (b, b)
SelfTraversalVisitsLeavesWitness ==
    /\ retTraversed.called
    /\ argReference = <<Obj("a", <<NumberInt("c", 0)>>), NumberInt("b", 0)>>
    /\ argObj = argReference
    /\ retTraversed.ret.compatible
    /\ retTraversed.ret.pairs = <<<<NumberInt("c", 0), NumberInt("c", 0)>>,
                                  <<NumberInt("b", 0), NumberInt("b", 0)>>>>


-----------------------------------------------------------------------------
(* mergeObj *)

\* C21: for inputs that each have no duplicate field names, a successful
\* mergeObj returns an object with no duplicate field name at any level.
MergeEmitsNoDuplicate ==
    (/\ retMerged.called
     /\ retMerged.ret.ok
     /\ UniqueNames(argReference)
     /\ UniqueNames(argObj)) =>
        UniqueNames(retMerged.ret.obj)


\* C22: a successful mergeObj had no mismatch of empty and non-empty object
\* shapes in its inputs: no field that is an empty Object in one input and a
\* non-empty Object in the other, and no empty Object field present in only
\* one of the two inputs (stated for inputs whose field names are unique).
MergeFailsOnEmptyShapeMismatch ==
    (/\ retMerged.called
     /\ retMerged.ret.ok
     /\ UniqueNames(argReference)
     /\ UniqueNames(argObj)) =>
        /\ SameEmptyShape(argReference, argObj)
        /\ SameEmptyShape(argObj, argReference)


\* the fields that exist in both objects are in the same relative order in
\* both, at every depth
RECURSIVE CommonFieldsInOrder(_, _)
CommonFieldsInOrder(reference, obj) ==
    /\ \A i, j \in 1..Len(reference) : \A k, l \in 1..Len(obj) :
           (/\ i < j
            /\ reference[i].name = obj[k].name
            /\ reference[j].name = obj[l].name) => k < l
    /\ \A i \in 1..Len(reference) : \A k \in 1..Len(obj) :
           (/\ reference[i].name = obj[k].name
            /\ reference[i].t = "Object"
            /\ obj[k].t = "Object") => CommonFieldsInOrder(reference[i].o, obj[k].o)

\* C23: mergeObj(reference, obj) succeeds only if the fields that exist in
\* both objects appear in the same relative order in both (stated for inputs
\* whose field names are unique).
MergeKeepsCommonOrder ==
    (/\ retMerged.called
     /\ retMerged.ret.ok
     /\ UniqueNames(argReference)
     /\ UniqueNames(argObj)) =>
        CommonFieldsInOrder(argReference, argObj)


-----------------------------------------------------------------------------
(* Control-block records *)

\* the records (offset, size) are in increasing offset order, do not overlap
\* and cover the buffer from its first to its last byte
RecordsCover(slot) ==
    /\ \A k \in 1..Len(slot.second) :
           slot.second[k][1] =
               IF k = 1 THEN 0 ELSE slot.second[k - 1][1] + slot.second[k - 1][2]
    /\ IF slot.second = <<>> THEN slot.first = <<>>
       ELSE slot.second[Len(slot.second)][1] + slot.second[Len(slot.second)][2]
                = Len(slot.first)

\* the per-leaf scratch buffers and records once every encoder is flushed
FlushedSubobjBuffers == _flushSubStates(Builder("crash"), 1)._subobjBuffers

\* C26: in kSubObjAppending mode, once the per-leaf encoders are flushed, the
\* control-block records of each encoder are in increasing offset order, do
\* not overlap and cover every byte the encoder wrote to its scratch buffer.
FlushedRecordsCover ==
    (~aborted /\ _mode = "kSubObjAppending") =>
        \A i \in 1..Len(FlushedSubobjBuffers) : RecordsCover(FlushedSubobjBuffers[i])


-----------------------------------------------------------------------------
(* Interleaving *)

\* the row elements of a control block: 1 for a literal, the sum of the slot
\* counts of its blocks for a Simple-8b run
RECURSIVE RowElements(_)
RowElements(block) ==
    IF block = <<>> THEN 0
    ELSE IF block[1].k = "byte" /\ isLiteralControlByte(block[1].b) THEN 1
    ELSE (IF block[1].k = "block" THEN Len(block[1].s) ELSE 0) + RowElements(Tail(block))

\* the control blocks of the slots in the order of the smallest pair (row
\* elements written so far, encoder index) among the encoders with records
\* remaining, each encoder's records oldest first
RECURSIVE InterleavedOrder(_, _, _)
InterleavedOrder(slots, written, out) ==
    LET remaining == {i \in 1..Len(slots) : slots[i].second # <<>>} IN
    IF remaining = {} THEN out
    ELSE LET i == CHOOSE i \in remaining : \A j \in remaining :
                      written[i] < written[j] \/ (written[i] = written[j] /\ i <= j)
             rec == Head(slots[i].second)
             block == SubSeq(slots[i].first, rec[1] + 1, rec[1] + rec[2])
         IN InterleavedOrder([slots EXCEPT ![i].second = Tail(@)],
                             [written EXCEPT ![i] = @ + RowElements(block)],
                             out \o block)

\* the builder once _flushSubObjMode has flushed every per-leaf encoder, and
\* once its loop has written the control blocks
Flushed == _flushSubStates(_finishIfDetermining(Builder("crash")), 1)
Interleaved == _interleaveAll(Flushed)

\* C24: _flushSubObjMode writes the control blocks to the main buffer in the
\* order of the smallest pair (row elements written so far, encoder index)
\* among the encoders with blocks remaining, each encoder's blocks oldest
\* first; a literal counts 1, a run the sum of the slot counts of its blocks.
InterleavedBySmallestPair ==
    (~aborted /\ _mode # "kRegular" /\ Interleaved.status = "ok") =>
        Interleaved._bufBuilder =
            Flushed._bufBuilder
                \o InterleavedOrder(Flushed._subobjBuffers,
                                    [i \in 1..Len(Flushed._subobjBuffers) |-> 0], <<>>)


\* after {a:0, b:0}, {a:"s", b:0}, {a:0, b:"s"} the encoder of a holds a run
\* of one row and two literals, the encoder of b a run of two rows and one
\* literal; they are written as a's run, b's run, a's two literals, b's
\* literal
InterleavedBySmallestPairWitness ==
    /\ ~aborted /\ _mode # "kRegular" /\ Interleaved.status = "ok"
    /\ Len(calls) = 3
    /\ Len(Flushed._subobjBuffers) = 2
    /\ Len(Flushed._subobjBuffers[1].second) = 3
    /\ Len(Flushed._subobjBuffers[2].second) = 2
    /\ Interleaved._bufBuilder =
           Flushed._bufBuilder
               \o SubSeq(Flushed._subobjBuffers[1].first, 1, 2)
               \o SubSeq(Flushed._subobjBuffers[2].first, 1, 2)
               \o SubSeq(Flushed._subobjBuffers[1].first, 3, 8)
               \o SubSeq(Flushed._subobjBuffers[2].first, 3, 5)


\* the bytes the records of a slot name
RECURSIVE RecordedSize(_)
RecordedSize(records) ==
    IF records = <<>> THEN 0 ELSE Head(records)[2] + RecordedSize(Tail(records))

RECURSIVE RecordedSizes(_)
RecordedSizes(slots) ==
    IF slots = <<>> THEN 0
    ELSE RecordedSize(Head(slots).second) + RecordedSizes(Tail(slots))

\* the builder when _flushSubObjMode returns
FlushEnded == _endInterleaved(Interleaved)

\* C25: when the interleaving loop of _flushSubObjMode starts every per-leaf
\* encoder has at least one recorded control block; the loop ends without
\* reading an empty record list, having written every recorded control block
\* once; then one EOO is written, the encoders and scratch buffers are
\* cleared and the mode is kRegular.
InterleavingTerminates ==
    (~aborted /\ _mode # "kRegular" /\ Flushed.status = "ok") =>
        /\ \A i \in 1..Len(Flushed._subobjBuffers) :
               Flushed._subobjBuffers[i].second # <<>>
        /\ Interleaved.status = "ok"
        /\ \A i \in 1..Len(Interleaved._subobjBuffers) :
               Interleaved._subobjBuffers[i].second = <<>>
        /\ Len(Interleaved._bufBuilder)
               = Len(Flushed._bufBuilder) + RecordedSizes(Flushed._subobjBuffers)
        /\ FlushEnded._bufBuilder = Append(Interleaved._bufBuilder, ByteCell(EOO))
        /\ FlushEnded._subobjStates = <<>>
        /\ FlushEnded._subobjBuffers = <<>>
        /\ FlushEnded._mode = "kRegular"


\* after {a:0, b:0} and {a:"s", b:0} the flush finds a run and a literal
\* recorded for a and a run for b, seven bytes in all, and writes them and
\* one EOO
InterleavingTerminatesWitness ==
    /\ ~aborted /\ _mode = "kSubObjDeterminingReference" /\ Flushed.status = "ok"
    /\ Len(calls) = 2
    /\ Len(Flushed._subobjBuffers) = 2
    /\ Len(Flushed._subobjBuffers[1].second) = 2
    /\ Len(Flushed._subobjBuffers[2].second) = 1
    /\ RecordedSizes(Flushed._subobjBuffers) = 7
    /\ Len(FlushEnded._bufBuilder) = Len(Flushed._bufBuilder) + 8
    /\ FlushEnded._bufBuilder[Len(FlushEnded._bufBuilder)] = ByteCell(EOO)
    /\ FlushEnded._mode = "kRegular"
    /\ FlushEnded._subobjStates = <<>>
    /\ FlushEnded._subobjBuffers = <<>>


-----------------------------------------------------------------------------
(* Seeding of the per-leaf encoders *)

\* the first slot an encoder recorded in its flushed scratch buffer: the
\* first slot of the first block of a run as a one-element sequence, <<>>
\* when the buffer starts with a literal
FirstRecorded(first) ==
    IF Len(first) >= 2 /\ first[1].k = "byte" /\ ~isLiteralControlByte(first[1].b)
                       /\ first[2].k = "block"
    THEN <<first[2].s[1]>>
    ELSE <<>>

\* the leaves of the reference paired with those of the first buffered object
FirstBufferedPairs == traverseLockStep(_referenceSubObj, _bufferedObjElements[1]).pairs

\* C27: when the reference is finalized and the buffered objects are
\* appended to the per-leaf encoders, the first element each encoder records
\* is a zero delta if the leaf is present in the first buffered object and a
\* skip if it is absent, never a literal.
SeededFirstRow ==
    (/\ ~aborted
     /\ _mode = "kSubObjDeterminingReference"
     /\ _bufferedObjElements # <<>>
     /\ Flushed.status = "ok"
     /\ Flushed._mode = "kSubObjAppending") =>
        /\ Len(Flushed._subobjBuffers) = Len(FirstBufferedPairs)
        /\ \A i \in 1..Len(FirstBufferedPairs) :
               FirstRecorded(Flushed._subobjBuffers[i].first) =
                   IF FirstBufferedPairs[i][2].t = "EOO" THEN <<kSkip>> ELSE <<0>>


\* after {a:0} and {a:0, b:0} the reference is {a:0, b:0}; finalized against
\* the first buffered object {a:0}, the encoder of a starts with a zero delta
\* and the encoder of b with a skip
SeededFirstRowWitness ==
    /\ ~aborted /\ _mode = "kSubObjDeterminingReference"
    /\ Flushed.status = "ok" /\ Flushed._mode = "kSubObjAppending"
    /\ _referenceSubObj = <<NumberInt("a", 0), NumberInt("b", 0)>>
    /\ _bufferedObjElements[1] = <<NumberInt("a", 0)>>
    /\ Len(Flushed._subobjBuffers) = 2
    /\ FirstRecorded(Flushed._subobjBuffers[1].first) = <<0>>
    /\ FirstRecorded(Flushed._subobjBuffers[2].first) = <<kSkip>>


-----------------------------------------------------------------------------
(* Order of the output of one encoder *)

\* the buffer has grown and the last thing in it is 'elem' as a literal
LiteralWritten(buf, buf2, elem) ==
    /\ Len(buf2) >= Len(buf) + 3
    /\ SubSeq(buf2, Len(buf2) - 2, Len(buf2)) = PrevBytes(elem)

\* no Simple-8b block follows a literal (or the reference object) directly:
\* a control byte comes first
BlockAfterControlByte(buf) ==
    \A i \in 1..(Len(buf) - 1) : buf[i].k = "value" => buf[i + 1].k # "block"

\* C28: whenever an encoder writes a literal, every delta and skip that was
\* pending in its Simple-8b builders is written before the literal's bytes
\* and the open control run is closed; the next block written after a
\* literal starts a new run with a control byte of its own.
LiteralAfterPending ==
    [][/\ (RegularAppendStep
              /\ LiteralWritten(_bufBuilder, _bufBuilder', calls'[Len(calls')].arg)) =>
             WroteLiteral(_state, _bufBuilder, _state', _bufBuilder',
                          calls'[Len(calls')].arg)
       /\ SubObjAppendStep =>
             \A i \in 1..Len(_subobjStates) :
                 (/\ LeafAppended(i).t # "EOO"
                  /\ LiteralWritten(_subobjBuffers[i].first, _subobjBuffers'[i].first,
                                    LeafAppended(i))) =>
                     WroteLiteral(_subobjStates[i], _subobjBuffers[i].first,
                                  _subobjStates'[i], _subobjBuffers'[i].first,
                                  LeafAppended(i))
       /\ ~aborted' =>
             /\ BlockAfterControlByte(_bufBuilder')
             /\ \A i \in 1..Len(_subobjBuffers') :
                    BlockAfterControlByte(_subobjBuffers'[i].first)]_vars

\* an array appended twice leaves a zero pending; a different array has no
\* delta, so it is written as a literal with no change of type, after the
\* block of the zero and its control byte
LiteralAfterPendingWitness ==
    /\ ~aborted /\ _mode = "kRegular" /\ Len(calls) = 3
    /\ calls[1].arg.t = "Array" /\ calls[2].arg = calls[1].arg
    /\ calls[3].arg.t = "Array" /\ calls[3].arg # calls[1].arg /\ calls[3].ok
    /\ SubSeq(_bufBuilder, kElementCountBytes + 1, Len(_bufBuilder))
          = PrevBytes(calls[1].arg)
              \o <<ByteCell(kControlByteForScaleIndex(kMemoryAsInteger)),
                   BlockCell(<<0>>)>>
              \o PrevBytes(calls[3].arg)
    /\ _state.s64 = <<>> /\ _state.s128 = <<>>
    /\ _state.controlByteOffset = kNoSimple8bControl

-----------------------------------------------------------------------------
(* State of an encoder after a literal *)

\* the derived state of an encoder that has just written 'elem' as a literal
ResetAfterLiteral(es, elem, scaleIndex) ==
    /\ es.scaleIndex = scaleIndex
    /\ es.prevDelta = 0
    /\ es.controlByteOffset = kNoSimple8bControl
    /\ es.prev = [elem EXCEPT !.name = ""]

\* the scale index that _initializeFromPrevious leaves for a literal
ScaleAfterLiteral(elem) ==
    IF elem.t = "NumberDouble"
        THEN scaleAndEncodeDouble(elem.n, 0).scaleIndex
        ELSE kMemoryAsInteger

\* every encoder that writes a literal in the step is left in the state
\* ResetAfterLiteral with the scale index scaleOf(literal)
LiteralLeaves(scaleOf(_)) ==
    /\ (RegularAppendStep
           /\ LiteralWritten(_bufBuilder, _bufBuilder', calls'[Len(calls')].arg)) =>
          ResetAfterLiteral(_state', calls'[Len(calls')].arg,
                            scaleOf(calls'[Len(calls')].arg))
    /\ SubObjAppendStep =>
          \A i \in 1..Len(_subobjStates) :
              (/\ LeafAppended(i).t # "EOO"
               /\ LiteralWritten(_subobjBuffers[i].first, _subobjBuffers'[i].first,
                                 LeafAppended(i))) =>
                  ResetAfterLiteral(_subobjStates'[i], LeafAppended(i),
                                    scaleOf(LeafAppended(i)))

AlwaysMemoryAsInteger(elem) == kMemoryAsInteger

\* C29, as stated: immediately after an encoder writes a literal, of any
\* type, its scale index is kMemoryAsInteger, _prevDelta is 0, no control run
\* is open and the appended value is the previous value.
LiteralResetsScale == [][LiteralLeaves(AlwaysMemoryAsInteger)]_vars

\* C29, amended: immediately after an encoder writes a literal, _prevDelta is
\* 0, no control run is open and the appended value is the previous value;
\* the scale index is kMemoryAsInteger for every type but NumberDouble, and
\* for a NumberDouble it is the lowest scale index that encodes the value.
LiteralResetsState == [][LiteralLeaves(ScaleAfterLiteral)]_vars

\* the timestamps 0 and 1 leave _prevDelta at 1; the literal 1.0 that follows
\* resets it and leaves the scale index 0
LiteralResetsStateWitness ==
    /\ ~aborted /\ _mode = "kRegular" /\ Len(calls) = 3
    /\ calls[1].arg = Timestamp("", 0) /\ calls[2].arg = Timestamp("", 1)
    /\ calls[3].arg = NumberDouble("", 100) /\ calls[3].ok
    /\ _state.prev = NumberDouble("", 100)
    /\ _state.prevDelta = 0 /\ _state.scaleIndex = 0
    /\ _state.controlByteOffset = kNoSimple8bControl
    /\ SubSeq(_bufBuilder, Len(_bufBuilder) - 2, Len(_bufBuilder))
          = PrevBytes(NumberDouble("", 100))


-----------------------------------------------------------------------------
(* Values equal to the previous value *)

\* the encoder has pushed the value 0 for 'elem' to the Simple-8b builder of
\* its type and has written no literal: the 0 is the last value pending,
\* the other builder is as it was, and the buffer has grown by nothing but
\* blocks and their control bytes, which hold values that were pending
PushedZero(es, buf, es2, buf2, elem) ==
    /\ IF uses128bit(elem.t)
          THEN es2.s128 # <<>> /\ es2.s128[Len(es2.s128)] = 0 /\ es2.s64 = es.s64
          ELSE es2.s64 # <<>> /\ es2.s64[Len(es2.s64)] = 0 /\ es2.s128 = es.s128
    /\ Len(buf2) >= Len(buf)
    /\ \A i \in (Len(buf) + 1)..Len(buf2) :
          buf2[i].k = "block" \/ (buf2[i].k = "byte" /\ IsSimple8bControl(buf2[i].b))
    /\ SlotCount(buf2) + Len(es2.s64) + Len(es2.s128)
          = SlotCount(buf) + Len(es.s64) + Len(es.s128) + 1
    /\ es2.prev = [elem EXCEPT !.name = ""]

\* the value has the type of the previous value of the encoder, which does
\* not use delta-of-delta, and is binary-equal to it
EqualToPrevious(es, elem) ==
    /\ elem.t = es.prev.t /\ ~usesDeltaOfDelta(elem.t)
    /\ elem.n = es.prev.n /\ elem.o = es.prev.o

\* C30: for every type that does not use delta-of-delta, a value of the type
\* of the previous value and binary-equal to it is encoded by pushing 0 to
\* the Simple-8b builder in use, never as a literal; also when the type has
\* no delta encoding (Object, Array) or the value has no 128-bit encoding
\* (long strings and binaries).
EqualValuePushesZero ==
    [][/\ (RegularAppendStep /\ EqualToPrevious(_state, calls'[Len(calls')].arg)) =>
             PushedZero(_state, _bufBuilder, _state', _bufBuilder',
                        calls'[Len(calls')].arg)
       /\ SubObjAppendStep =>
             \A i \in 1..Len(_subobjStates) :
                 (LeafAppended(i).t # "EOO"
                     /\ EqualToPrevious(_subobjStates[i], LeafAppended(i))) =>
                     PushedZero(_subobjStates[i], _subobjBuffers[i].first,
                                _subobjStates'[i], _subobjBuffers'[i].first,
                                LeafAppended(i))]_vars

\* an array, a long string, a long binary or the empty object appended three
\* times: one literal, and two zeros pending
EqualValuePushesZeroWitness ==
    /\ ~aborted /\ _mode = "kRegular" /\ Len(calls) = 3
    /\ \A i \in 1..3 : calls[i].op = "append" /\ calls[i].ok /\ calls[i].arg = calls[1].arg
    /\ \/ calls[1].arg.t \in {"Array", "Object"}
       \/ calls[1].arg.t \in {"String", "BinData"} /\ calls[1].arg.n < 0
    /\ _bufBuilder = SubSeq(_bufBuilder, 1, kElementCountBytes) \o PrevBytes(calls[1].arg)
    /\ IF uses128bit(calls[1].arg.t)
          THEN _state.s128 = <<0, 0>> /\ _state.s64 = <<>>
          ELSE _state.s64 = <<0, 0>> /\ _state.s128 = <<>>


-----------------------------------------------------------------------------
(* Strings of more than 16 bytes *)

\* a String of more than 16 bytes
IsLongString(elem) == elem.t = "String" /\ elem.n < 0

\* every encoder that receives a string of more than 16 bytes in the step,
\* and for which 'unless' does not hold, writes it as a literal
LongStringLiteral(unless(_, _)) ==
    /\ (RegularAppendStep /\ IsLongString(calls'[Len(calls')].arg)
           /\ ~unless(_state, calls'[Len(calls')].arg)) =>
          WroteLiteral(_state, _bufBuilder, _state', _bufBuilder', calls'[Len(calls')].arg)
    /\ SubObjAppendStep =>
          \A i \in 1..Len(_subobjStates) :
              (IsLongString(LeafAppended(i))
                  /\ ~unless(_subobjStates[i], LeafAppended(i))) =>
                  WroteLiteral(_subobjStates[i], _subobjBuffers[i].first,
                               _subobjStates'[i], _subobjBuffers'[i].first,
                               LeafAppended(i))

NoException(es, elem) == FALSE

\* C31, as stated: every appended String value longer than 16 bytes is
\* written as a literal, every time it is appended, whatever the previous
\* value was.
LongStringAlwaysLiteral == [][LongStringLiteral(NoException)]_vars

\* C31, amended: an appended String value longer than 16 bytes is written as
\* a literal every time it is appended, unless the previous value of the
\* encoder is a String binary-equal to it; then the value 0 is pushed to the
\* 128-bit Simple-8b builder and no literal is written.
LongStringLiteralUnlessEqual ==
    [][/\ LongStringLiteral(EqualToPrevious)
       /\ (RegularAppendStep /\ IsLongString(calls'[Len(calls')].arg)
              /\ EqualToPrevious(_state, calls'[Len(calls')].arg)) =>
             PushedZero(_state, _bufBuilder, _state', _bufBuilder',
                        calls'[Len(calls')].arg)]_vars

\* two long strings in turn: three literals, nothing pending
LongStringLiteralWitness ==
    /\ ~aborted /\ _mode = "kRegular" /\ Len(calls) = 3
    /\ calls[1].arg = String("", -1) /\ calls[2].arg = String("", -2)
    /\ calls[3].arg = String("", -1) /\ calls[3].ok
    /\ SubSeq(_bufBuilder, kElementCountBytes + 1, Len(_bufBuilder))
          = PrevBytes(String("", -1)) \o PrevBytes(String("", -2))
               \o PrevBytes(String("", -1))
    /\ _state.s128 = <<>>


-----------------------------------------------------------------------------
(* Timestamps *)

\* the encoder has pushed the slot v for 'elem' to the 64-bit Simple-8b
\* builder and has written no literal
PushedSlot64(es, buf, es2, buf2, elem, v) ==
    /\ es2.s64 # <<>> /\ es2.s64[Len(es2.s64)] = v /\ es2.s128 = es.s128
    /\ Len(buf2) >= Len(buf)
    /\ \A i \in (Len(buf) + 1)..Len(buf2) :
          buf2[i].k = "block" \/ (buf2[i].k = "byte" /\ IsSimple8bControl(buf2[i].b))
    /\ SlotCount(buf2) + Len(es2.s64) = SlotCount(buf) + Len(es.s64) + 1
    /\ es2.prev = [elem EXCEPT !.name = ""]

\* a Timestamp that follows a Timestamp is pushed as the zig-zag of its
\* delta-of-delta, and its first-order delta is kept in _prevDelta
TimestampPushed(es, buf, es2, buf2, elem) ==
    (elem.t = "bsonTimestamp" /\ es.prev.t = "bsonTimestamp"
        /\ Simple8bEncodable(encodeInt64((elem.n - es.prev.n) - es.prevDelta))) =>
        /\ PushedSlot64(es, buf, es2, buf2, elem,
                        encodeInt64((elem.n - es.prev.n) - es.prevDelta))
        /\ es2.prevDelta = elem.n - es.prev.n

\* C32: a Timestamp t_k that follows a Timestamp t_{k-1} in an encoder is
\* pushed to Simple-8b as zigzag((t_k - t_{k-1}) - d_{k-1}), d_{k-1} being
\* _prevDelta, which is 0 right after a literal, and _prevDelta becomes
\* t_k - t_{k-1}; equal consecutive timestamps take the same path and are
\* not short-cut as a push of 0.
TimestampDeltaOfDelta ==
    [][/\ RegularAppendStep =>
             TimestampPushed(_state, _bufBuilder, _state', _bufBuilder',
                             calls'[Len(calls')].arg)
       /\ SubObjAppendStep =>
             \A i \in 1..Len(_subobjStates) :
                 TimestampPushed(_subobjStates[i], _subobjBuffers[i].first,
                                 _subobjStates'[i], _subobjBuffers'[i].first,
                                 LeafAppended(i))
       /\ \A i \in 1..Len(calls') :
             (i > 1 /\ calls'[i].op = "append" /\ calls'[i - 1].op = "append"
                 /\ calls'[i].arg.t = "bsonTimestamp"
                 /\ calls'[i - 1].arg.t # "bsonTimestamp"
                 /\ i = Len(calls') /\ calls' # calls /\ calls'[i].ok /\ ~aborted') =>
                 _state'.prevDelta = 0]_vars

\* timestamps with the deltas 1, 1, 1 after a literal: delta-of-deltas 1, 0, 0
TimestampDeltaOfDeltaWitness ==
    /\ ~aborted /\ _mode = "kRegular" /\ Len(calls) = 4
    /\ \A i \in 1..4 : calls[i].ok /\ calls[i].arg = Timestamp("", i - 1)
    /\ _bufBuilder = SubSeq(_bufBuilder, 1, kElementCountBytes) \o PrevBytes(Timestamp("", 0))
    /\ _state.s64 = <<encodeInt64(1), encodeInt64(0), encodeInt64(0)>>
    /\ _state.prevDelta = 1


-----------------------------------------------------------------------------
(* Scale of a Simple-8b run *)

\* the open control byte of the encoder was written for another scale index
\* than the encoder has now
ScaleMismatch(es, buf) ==
    /\ es.controlByteOffset # kNoSimple8bControl
    /\ BitAnd(buf[es.controlByteOffset + 1].b, kControlMask)
          # kControlByteForScaleIndex(es.scaleIndex)

\* r is the encoder c after the emission of a block: the block is the last
\* cell, and it belongs to a run whose control byte has the upper nibble of
\* the scale index of c.  With no run open, or a run open for another scale,
\* the block is block 1 of a new run, whose control byte follows the cells of
\* c; a run open for another scale is left as it was, is handed to the
\* control-block writer and is no longer the open run.
BlockJoinsRun(c, r, block) ==
    /\ r.buf[Len(r.buf)] = BlockCell(block)
    /\ IF c.es.controlByteOffset = kNoSimple8bControl \/ ScaleMismatch(c.es, c.buf)
       THEN /\ r.buf = c.buf \o <<ByteCell(kControlByteForScaleIndex(c.es.scaleIndex)),
                                  BlockCell(block)>>
            /\ r.es.controlByteOffset = Len(c.buf)
            /\ r.cbs = IF ScaleMismatch(c.es, c.buf) /\ c.es.controlBlockWriter
                       THEN Append(c.cbs, <<c.es.controlByteOffset,
                                            Len(c.buf) - c.es.controlByteOffset>>)
                       ELSE c.cbs
       ELSE /\ Len(r.buf) = Len(c.buf) + 1
            /\ \A i \in 1..Len(c.buf) : i # c.es.controlByteOffset + 1 => r.buf[i] = c.buf[i]
            /\ r.buf[c.es.controlByteOffset + 1]
                  = ByteCell(c.buf[c.es.controlByteOffset + 1].b + 1)
            /\ BitAnd(r.buf[c.es.controlByteOffset + 1].b, kControlMask)
                  = kControlByteForScaleIndex(c.es.scaleIndex)

\* every encoder of the builder, with its buffer, at each scale index
EncoderContexts ==
    {Ctx([_state EXCEPT !.scaleIndex = s], _bufBuilder, <<>>) : s \in 0..kMemoryAsInteger}
       \cup UNION {{Ctx([_subobjStates[i] EXCEPT !.scaleIndex = s],
                        _subobjBuffers[i].first, _subobjBuffers[i].second)
                       : s \in 0..kMemoryAsInteger} : i \in 1..Len(_subobjStates)}

\* C33: no Simple-8b run mixes scales.  A block emitted by an encoder joins a
\* run whose control byte has the upper nibble kControlByteForScaleIndex[s],
\* s being the scale index of the encoder at that moment; when the open
\* control byte has another upper nibble, that run is closed (handed to the
\* control-block writer, offset cleared) and the block is block 1 of a new
\* run.
RunHasOneScale ==
    ~aborted =>
        \A c \in EncoderContexts :
            BlockJoinsRun(c, _createBufferWriter(c, <<kSkip>>), <<kSkip>>)

\* a skip has written the block of the delta of 1.0 in a run of scale index
\* kMemoryAsInteger and has set the scale index 0; finalize has written the
\* pending skip as block 1 of a run of scale index 0
RunHasOneScaleWitness ==
    /\ ~aborted /\ _mode = "kRegular" /\ Len(calls) = 4
    /\ calls[1].arg = NumberDouble("", 2^30) /\ calls[2].arg = NumberDouble("", 100)
    /\ calls[3].op = "skip" /\ calls[4].op = "finalize"
    /\ Len(_bufBuilder) = kElementCountBytes + 8
    /\ _bufBuilder[kElementCountBytes + 4]
          = ByteCell(kControlByteForScaleIndex(kMemoryAsInteger))
    /\ _bufBuilder[kElementCountBytes + 5].k = "block"
    /\ _bufBuilder[kElementCountBytes + 6] = ByteCell(kControlByteForScaleIndex(0))
    /\ _bufBuilder[kElementCountBytes + 7] = BlockCell(<<kSkip>>)


-----------------------------------------------------------------------------
(* State of an encoder after flush *)

\* nothing is pending in the Simple-8b builders of the encoder
NothingPending(es) == es.s64 = <<>> /\ es.s128 = <<>>

\* the open run of the encoder, when there is one, is the last thing in its
\* buffer before 'after' more cells, and it is not full
OpenRunIsLast(es, buf, after) ==
    es.controlByteOffset # kNoSimple8bControl =>
        /\ buf[es.controlByteOffset + 1].k = "byte"
        /\ IsSimple8bControl(buf[es.controlByteOffset + 1].b)
        /\ es.controlByteOffset + 1 + numSimple8bBlocksForControlByte(
               buf[es.controlByteOffset + 1].b) = Len(buf) - after
        /\ numSimple8bBlocksForControlByte(buf[es.controlByteOffset + 1].b) < kMaxCount

\* the run of the per-leaf encoder that is open after its flush is the last
\* one handed to the control-block writer
OpenRunRecorded(es, slot) ==
    es.controlByteOffset # kNoSimple8bControl =>
        /\ slot.second # <<>>
        /\ slot.second[Len(slot.second)]
              = <<es.controlByteOffset, Len(slot.first) - es.controlByteOffset>>

-----------------------------------------------------------------------------
(* Doubles: _prevEncoded64 *)

\* the encoder, whose previous value was a double, has received the double
\* 'elem' and has written no literal for it
DoubleDeltaEncoded(es, buf, buf2, elem) ==
    /\ elem.t = "NumberDouble" /\ es.prev.t = "NumberDouble"
    /\ ~LiteralWritten(buf, buf2, elem)

\* C36: after every append of a Double that is delta-encoded, also one that
\* writes a block and appends the pending values again at a lower scale,
\* _prevEncoded64 is the encoding of the appended double at the scale index
\* of the encoder: decodeDouble(_prevEncoded64, _scaleIndex) is that double.
PrevEncodedIsLastDouble ==
    [][(RegularAppendStep
           /\ DoubleDeltaEncoded(_state, _bufBuilder, _bufBuilder', calls'[Len(calls')].arg)) =>
          /\ encodeDouble(calls'[Len(calls')].arg.n, _state'.scaleIndex).ok
          /\ encodeDouble(calls'[Len(calls')].arg.n, _state'.scaleIndex).v
                = _state'.prevEncoded64
          /\ decodeDouble(_state'.prevEncoded64, _state'.scaleIndex)
                = calls'[Len(calls')].arg.n]_vars


-----------------------------------------------------------------------------
(* Doubles: the pending deltas *)

\* the doubles that a decoder reads from the pending slots, when the value
\* before them has the encoding prevEncoded at the scale index: <<v>> for a
\* double and <<>> for a skip
RECURSIVE PendingDoubles(_, _, _)
PendingDoubles(pending, prevEncoded, scaleIndex) ==
    IF pending = <<>> THEN <<>>
    ELSE IF Head(pending) = kSkip
    THEN <<<<>>>> \o PendingDoubles(Tail(pending), prevEncoded, scaleIndex)
    ELSE <<<<decodeDouble(expandDelta(prevEncoded, decodeInt64(Head(pending))),
                          scaleIndex)>>>>
            \o PendingDoubles(Tail(pending),
                              expandDelta(prevEncoded, decodeInt64(Head(pending))),
                              scaleIndex)

\* what the calls from index i have appended: <<v>> for a double, <<>> for a
\* skip
RECURSIVE AppendedDoubles(_)
AppendedDoubles(i) ==
    IF i > Len(calls) THEN <<>>
    ELSE <<IF calls[i].op = "append" THEN <<calls[i].arg.n>> ELSE <<>>>>
            \o AppendedDoubles(i + 1)

\* the Regular encoder holds doubles
RegularDoubles ==
    /\ ~aborted /\ ~finalized /\ _mode = "kRegular"
    /\ _state.prev.t = "NumberDouble"

\* C35: in every reachable state of an encoder whose previous value is a
\* Double, every delta pending in the 64-bit Simple-8b builder is a delta at
\* the scale index of the encoder: decoded at that scale index from the
\* value before them, the pending slots are the doubles and skips that were
\* appended last.
PendingAtCurrentScale ==
    RegularDoubles =>
        /\ encodeDouble(_state.lastValueInPrevBlock, _state.scaleIndex).ok
        /\ PendingDoubles(_state.s64,
                          encodeDouble(_state.lastValueInPrevBlock, _state.scaleIndex).v,
                          _state.scaleIndex)
              = AppendedDoubles(Len(calls) - Len(_state.s64) + 1)


-----------------------------------------------------------------------------
(* Doubles: _lastValueInPrevBlock *)

\* the double appended last by the calls 1..i (0 when there is none)
RECURSIVE LastAppendedDouble(_)
LastAppendedDouble(i) ==
    IF i < 1 THEN 0
    ELSE IF calls[i].op = "append" THEN calls[i].arg.n
    ELSE LastAppendedDouble(i - 1)

\* C37: _lastValueInPrevBlock of an encoder of doubles is the double of the
\* last element that is in a block (or the literal), i.e. the value that
\* precedes the first delta still pending in the 64-bit Simple-8b builder,
\* also when the builder keeps earlier pending values after it has written a
\* block.
LastValuePrecedesPending ==
    RegularDoubles =>
        _state.lastValueInPrevBlock = LastAppendedDouble(Len(calls) - Len(_state.s64))


-----------------------------------------------------------------------------
(* Doubles: what a decoder reads *)

\* the scale index of a Simple-8b control byte
ScaleIndexOfControl(b) ==
    CHOOSE s \in 0..kMemoryAsInteger : kControlByteForScaleIndex(s) = BitAnd(b, kControlMask)

\* the doubles (<<v>>) and skips (<<>>) of the slots of a block, after a
\* value with the encoding prevEncoded: [rows, prevEncoded]
RECURSIVE BlockDoubles(_, _, _, _)
BlockDoubles(slots, prevEncoded, scaleIndex, rows) ==
    IF slots = <<>> THEN [rows |-> rows, prevEncoded |-> prevEncoded]
    ELSE IF Head(slots) = kSkip
    THEN BlockDoubles(Tail(slots), prevEncoded, scaleIndex, Append(rows, <<>>))
    ELSE BlockDoubles(Tail(slots), expandDelta(prevEncoded, decodeInt64(Head(slots))),
                      scaleIndex,
                      Append(rows, <<decodeDouble(
                                         expandDelta(prevEncoded, decodeInt64(Head(slots))),
                                         scaleIndex)>>))

\* the rows of a column of doubles from cell pos: a literal sets the last
\* value, a control byte encodes the last value at its scale index, a block
\* applies its deltas
RECURSIVE ColumnDoubles(_, _, _, _, _, _)
ColumnDoubles(buf, pos, last, prevEncoded, scaleIndex, rows) ==
    IF pos > Len(buf) THEN rows
    ELSE IF buf[pos].k = "block"
    THEN ColumnDoubles(buf, pos + 1,
                       IF BlockDoubles(buf[pos].s, prevEncoded, scaleIndex, <<>>).rows = <<>>
                          \/ \A k \in 1..Len(buf[pos].s) : buf[pos].s[k] = kSkip
                       THEN last
                       ELSE decodeDouble(
                                BlockDoubles(buf[pos].s, prevEncoded, scaleIndex,
                                             <<>>).prevEncoded, scaleIndex),
                       BlockDoubles(buf[pos].s, prevEncoded, scaleIndex, <<>>).prevEncoded,
                       scaleIndex,
                       rows \o BlockDoubles(buf[pos].s, prevEncoded, scaleIndex, <<>>).rows)
    ELSE IF buf[pos].k = "byte" /\ IsSimple8bControl(buf[pos].b)
    THEN ColumnDoubles(buf, pos + 1, last,
                       encodeDouble(last, ScaleIndexOfControl(buf[pos].b)).v,
                       ScaleIndexOfControl(buf[pos].b), rows)
    ELSE IF buf[pos].k = "byte" /\ buf[pos].b = TypeByte("NumberDouble")
    THEN ColumnDoubles(buf, pos + 3, buf[pos + 2].e.n, 0, kMemoryAsInteger,
                       Append(rows, <<buf[pos + 2].e.n>>))
    ELSE rows

\* the column of a finalized builder that received doubles and skips only
\* decodes to what was appended
DoublesRoundTrip ==
    (finalized /\ ~aborted) =>
        ColumnDoubles(_bufBuilder, kElementCountBytes + 1, 0, 0, kMemoryAsInteger, <<>>)
            = SubSeq(AppendedDoubles(1), 1, Len(calls) - 1)


-----------------------------------------------------------------------------
(* BinData *)

\* a BinData that follows a BinData of another size or another subtype
BinDataShapeChange(es, elem) ==
    /\ elem.t = "BinData" /\ es.prev.t = "BinData"
    /\ \/ BinSize(elem.n) # BinSize(es.prev.n)
       \/ BinSubtype(elem.n) # BinSubtype(es.prev.n)

\* C38: a BinData value is delta-encoded against the previous BinData value
\* only when its byte length and its binary subtype are those of the
\* previous value; a BinData value of another length or another subtype is
\* written as a literal.
BinDataShapeChangeIsLiteral ==
    [][/\ (RegularAppendStep /\ BinDataShapeChange(_state, calls'[Len(calls')].arg)) =>
             WroteLiteral(_state, _bufBuilder, _state', _bufBuilder',
                          calls'[Len(calls')].arg)
       /\ SubObjAppendStep =>
             \A i \in 1..Len(_subobjStates) :
                 BinDataShapeChange(_subobjStates[i], LeafAppended(i)) =>
                     WroteLiteral(_subobjStates[i], _subobjBuffers[i].first,
                                  _subobjStates'[i], _subobjBuffers'[i].first,
                                  LeafAppended(i))]_vars


-----------------------------------------------------------------------------
(* skip() in kSubObjDeterminingReference mode *)

\* the step ends a determining phase that buffered a skip: the call returned
\* and the interleaved start was written
BufferedSkipFinishStep ==
    /\ _mode = "kSubObjDeterminingReference"
    /\ Len(calls') = Len(calls) + 1
    /\ calls'[Len(calls')].ok /\ ~aborted'
    /\ Len(_bufBuilder') > Len(_bufBuilder)
    /\ \E k \in 1..Len(_bufferedObjElements) : _bufferedObjElements[k] = <<>>

\* the rows an encoder holds, written or pending: TRUE for a skip
RECURSIVE WrittenSkips(_)
WrittenSkips(buf) ==
    IF buf = <<>> THEN <<>>
    ELSE (IF Head(buf).k = "block" THEN [j \in 1..Len(Head(buf).s) |-> Head(buf).s[j] = kSkip]
          ELSE IF Head(buf).k = "value" THEN <<FALSE>>
          ELSE <<>>) \o WrittenSkips(Tail(buf))

HeldSkips(es, buf) ==
    WrittenSkips(buf)
        \o [j \in 1..Len(es.s64) |-> es.s64[j] = kSkip]
        \o [j \in 1..Len(es.s128) |-> es.s128[j] = kSkip]

\* the rows of the interleaved section that starts the cells, and whether an
\* EOO ends it
SectionRows(cells) ==
    IF ~IsInterleavedStartAt(cells, 1) THEN [rows |-> <<>>, ended |-> FALSE]
    ELSE LET reference == cells[2].e.o
             leaves == _traverse(reference)
             s == DecodeInterleaved(cells, 3, reference,
                     [i \in 1..Len(leaves) |-> [prev |-> [leaves[i][1] EXCEPT !.name = ""],
                                                q |-> <<>>]],
                     <<>>)
         IN [rows |-> s.rows, ended |-> IsEOOAt(cells, s.pos)]

\* what C39 says of the step that ends the phase: the phase gives one section;
\* either the section is still open and every per-leaf encoder holds the
\* buffered rows, a skip where a skip was buffered, or the section was emitted
\* and its rows are the buffered rows
BufferedSkipsEncoded ==
    /\ IsInterleavedStartAt(Added, 1)
    /\ IF _mode' = "kSubObjAppending"
       THEN /\ Len(Added) = 2
            /\ _subobjStates' # <<>>
            /\ \A i \in 1..Len(_subobjStates') :
                  LET held == HeldSkips(_subobjStates'[i], _subobjBuffers'[i].first) IN
                  /\ Len(held) = Len(_bufferedObjElements) + 1
                  /\ \A k \in 1..Len(_bufferedObjElements) :
                        _bufferedObjElements[k] = <<>> => held[k]
       ELSE /\ SectionRows(Added).ended
            /\ SectionRows(Added).rows = BufferedRows

\* C39: a skip() issued in kSubObjDeterminingReference mode is encoded, at its
\* row position between the surrounding objects, as a skip in every per-leaf
\* encoder of the interleaved section emitted for that determining phase; it
\* never flushes or restarts the sub-object mode and is never dropped.
BufferedSkipIsRow == [][BufferedSkipFinishStep => BufferedSkipsEncoded]_vars


-----------------------------------------------------------------------------
(* The Regular encoder during a sub-object mode *)

\* the step is an accepted append of a scalar (or of an empty object) that
\* ends a sub-object mode
ScalarAfterSectionStep ==
    /\ AppendStep /\ calls'[Len(calls')].ok /\ ~aborted'
    /\ IsScalarOrEmptyObj(calls'[Len(calls')].arg)
    /\ _mode # "kRegular"

\* C40: while the builder is in a sub-object mode the Regular encoder is in
\* its initial state (previous = EOO, nothing pending, no open control run)
\* and no operation changes it; the first scalar appended after an
\* interleaved section is therefore written as a literal and no delta against
\* a value from before the section is pushed.
RegularEncoderIdle ==
    [][/\ (~aborted' /\ _mode' # "kRegular") => _state' = EncodingState(FALSE)
       /\ (_mode # "kRegular" /\ _mode' # "kRegular") => _state' = _state
       /\ ScalarAfterSectionStep =>
             /\ _mode' = "kRegular"
             /\ LiteralWritten(_bufBuilder, _bufBuilder', calls'[Len(calls')].arg)
             /\ _state'.prev = [calls'[Len(calls')].arg EXCEPT !.name = ""]
             /\ _state'.s64 = <<>> /\ _state'.s128 = <<>>
             /\ _state'.controlByteOffset = kNoSimple8bControl]_vars

\* 0 was appended, then {a:0} and a skip in the sub-object modes, then 0
\* again: the second 0 is a literal after the section, not a zero delta
RegularEncoderIdleWitness ==
    /\ ~aborted /\ Len(calls) = 4
    /\ calls[1].arg = NumberInt("", 0) /\ calls[1].ok
    /\ calls[2].arg = Obj("", <<NumberInt("a", 0)>>) /\ calls[2].ok
    /\ calls[3].op = "skip" /\ calls[3].mode = "kSubObjDeterminingReference"
    /\ calls[4].op = "append" /\ calls[4].arg = NumberInt("", 0) /\ calls[4].ok
    /\ calls[4].mode = "kSubObjDeterminingReference"
    /\ _mode = "kRegular"
    /\ SubSeq(_bufBuilder, Len(_bufBuilder) - 2, Len(_bufBuilder)) = PrevBytes(NumberInt("", 0))
    /\ SubSeq(_bufBuilder, kElementCountBytes + 1, kElementCountBytes + 3) = PrevBytes(NumberInt("", 0))
    /\ IsInterleavedStartAt(_bufBuilder, kElementCountBytes + 4)
    /\ _state.s64 = <<>>

====
